---- MODULE Spec2Model ----
(***************************************************************************)
(* Contact Decision Engine of MarketingAutomation-Lite: the lead-scoring   *)
(* engine (app/services/scoring_engine.py), the lifecycle engine           *)
(* (app/services/contact_lifecycle.py) and the tracking endpoints that     *)
(* feed it (app/api/tracking.py).                                          *)
(*                                                                         *)
(* Scores are fixed-point numbers in hundredths of a point (the code       *)
(* rounds the recency component to two decimals); times are whole days.    *)
(***************************************************************************)
EXTENDS Integers, Sequences, FiniteSets, Bags, TLC

VARIABLES
    now,            \* the clock, in days
    contacts,       \* table contacts: contact id -> profile
    score_events,   \* table score_events: the ledger, in insertion order
    scores,         \* table contact_scores: contact id -> row (one per contact)
    email_events,   \* table email_events: a bag of rows
    requests,       \* in-flight record_score_event requests (concurrent model)
    ret,            \* what the last operation returned
    scoring_rules,  \* table scoring_rules: rule id -> row
    suppression,    \* table suppression_list: a bag of rows
    audiences,      \* table audiences: audience id -> row, as committed
    session,        \* the AudienceBuilder session: audience id -> row in memory
    foreign_keys,   \* whether the database enforces foreign keys
    automation_rules,   \* table automation_rules: rule id -> row
    automation_logs     \* table automation_logs, in insertion order

\* the tables the scoring and lifecycle operations do not touch
other_tables ==
    <<scoring_rules, suppression, audiences, session, foreign_keys,
      automation_rules, automation_logs>>

vars == <<now, contacts, score_events, scores, email_events, requests, ret,
          other_tables>>

(***************************************************************************)
(* Bounds and input sets                                                   *)
(***************************************************************************)
MaxDay == 61
MaxScoreEvents == 2
MaxEmailEvents == 2
MaxBatchLimit == 2
MaxEvalDay == 91
MaxEvalEmailEvents == 2
MaxBatchScoreEvents == 2
MaxBatchEmailEvents == 2
MaxRuleLedger == 2

ContactIds == {"c1", "c2"}
Campaigns == {"k1", "k2"}
Points == {-1000, 1500, 5000}
TickDays == {61}
EvalTickDays == {30, 61}
EvalScores == {1500, 7000}
RequestIds == {1, 2, 3}
BatchPoints == {1500}

NoTime == -1

\* the result of an operation that returns nothing the model reads
NoResult == [op |-> "none"]

Max(a, b) == IF a >= b THEN a ELSE b
Min(a, b) == IF a <= b THEN a ELSE b

(***************************************************************************)
(* scoring_engine.py: thresholds and pure functions                        *)
(***************************************************************************)
GRADE_THRESHOLDS ==
    << <<9000, "A+">>, <<8000, "A">>, <<7000, "B+">>, <<6000, "B">>,
       <<4500, "C">>, <<2500, "D">>, <<0, "F">> >>

LIFECYCLE_THRESHOLDS ==
    << <<9000, "evangelist">>, <<7000, "customer">>, <<5500, "sql">>,
       <<4000, "mql">>, <<2000, "lead">>, <<0, "subscriber">> >>

RECURSIVE FirstAtLeast(_, _, _, _)
\* for threshold, name in table: if score >= threshold: return name; return dflt
FirstAtLeast(table, i, score, dflt) ==
    IF i > Len(table) THEN dflt
    ELSE IF score >= table[i][1] THEN table[i][2]
    ELSE FirstAtLeast(table, i + 1, score, dflt)

score_to_grade(score) == FirstAtLeast(GRADE_THRESHOLDS, 1, score, "F")

\* score_to_lifecycle without the customer/evangelist guard
score_to_lifecycle_unguarded(score, current) ==
    FirstAtLeast(LIFECYCLE_THRESHOLDS, 1, score, "subscriber")

score_to_lifecycle(score, current) ==
    IF current \in {"customer", "evangelist"} THEN current
    ELSE FirstAtLeast(LIFECYCLE_THRESHOLDS, 1, score, "subscriber")

\* str.strip() on the modelled field values: "" empty, " " blank, "x" text
strip(s) == IF s = " " THEN "" ELSE s

\* json.loads of the stored custom_fields text: the number of keys of the
\* decoded dict, -1 when the text is no JSON (decoded to {}), -2 when it
\* decodes to something that is no dict.
CustomFieldTexts == {"{}", "{a}", "{a,b}", "not json", "[1,2]"}
custom_len(text) ==
    CASE text = "{}" -> 0
      [] text = "{a}" -> 1
      [] text = "{a,b}" -> 2
      [] text = "[1,2]" -> -2
      [] OTHER -> 0

\* calculate_profile_score with the bonus for one custom attribute
calculate_profile_score_one_attribute(contact) ==
    LET s1 == IF contact.email # "" THEN 400 ELSE 0
        s2 == IF contact.first_name # "" /\ strip(contact.first_name) # "" THEN 400 ELSE 0
        s3 == IF contact.last_name # "" /\ strip(contact.last_name) # "" THEN 300 ELSE 0
        s4 == IF contact.phone # "" /\ strip(contact.phone) # "" THEN 300 ELSE 0
        s5 == IF contact.country # "" /\ strip(contact.country) # "" THEN 300 ELSE 0
        s6 == IF custom_len(contact.custom_fields) >= 1 THEN 300 ELSE 0
    IN Min(2000, s1 + s2 + s3 + s4 + s5 + s6)

calculate_profile_score(contact) ==
    LET s1 == IF contact.email # "" THEN 400 ELSE 0
        s2 == IF contact.first_name # "" /\ strip(contact.first_name) # "" THEN 400 ELSE 0
        s3 == IF contact.last_name # "" /\ strip(contact.last_name) # "" THEN 300 ELSE 0
        s4 == IF contact.phone # "" /\ strip(contact.phone) # "" THEN 300 ELSE 0
        s5 == IF contact.country # "" /\ strip(contact.country) # "" THEN 300 ELSE 0
        s6 == IF custom_len(contact.custom_fields) >= 2 THEN 300 ELSE 0
    IN Min(2000, s1 + s2 + s3 + s4 + s5 + s6)

\* round(20.0 * math.exp(-0.03 * d), 2) in hundredths, for d = 0 .. 89
DECAY ==
    << 2000, 1941, 1884, 1828, 1774, 1721, 1671, 1621, 1573, 1527,
       1482, 1438, 1395, 1354, 1314, 1275, 1238, 1201, 1165, 1131,
       1098, 1065, 1034, 1003, 974, 945, 917, 890, 863, 838,
       813, 789, 766, 743, 721, 700, 679, 659, 640, 621,
       602, 585, 567, 551, 534, 518, 503, 488, 474, 460,
       446, 433, 420, 408, 396, 384, 373, 362, 351, 341,
       331, 321, 311, 302, 293, 285, 276, 268, 260, 252,
       245, 238, 231, 224, 217, 211, 205, 199, 193, 187,
       181, 176, 171, 166, 161, 156, 152, 147, 143, 139 >>

calculate_recency_score(last_activity, t) ==
    IF last_activity = NoTime THEN 0
    ELSE LET days_ago == t - last_activity
         IN IF days_ago <= 0 THEN 2000
            ELSE IF days_ago >= 90 THEN 0
            ELSE DECAY[days_ago + 1]

(***************************************************************************)
(* The tables' rows                                                        *)
(***************************************************************************)
\* ContactScore(contact_id=...) with the column defaults applied
NewContactScore(t) ==
    [ total_score |-> 0, engagement_score |-> 0, profile_score |-> 0,
      recency_score |-> 0, grade |-> "C", lifecycle_stage |-> "subscriber",
      last_activity_at |-> NoTime, score_updated_at |-> t ]

ScoreEvent(c, rule_id, event_type, points, t) ==
    [ contact_id |-> c, rule_id |-> rule_id, event_type |-> event_type,
      points |-> points, created_at |-> t ]

EmailEvent(k, c, event_type, t) ==
    [ campaign_id |-> k, contact_id |-> c, event_type |-> event_type,
      created_at |-> t ]

RowOf(c, t) == IF c \in DOMAIN scores THEN scores[c] ELSE NewContactScore(t)

Upsert(table, c, row) ==
    [x \in DOMAIN table \cup {c} |-> IF x = c THEN row ELSE table[x]]

RECURSIVE SumPoints(_, _)
\* select coalesce(sum(points), 0) from score_events where contact_id = c
SumPoints(evs, c) ==
    IF evs = << >> THEN 0
    ELSE (IF Head(evs).contact_id = c THEN Head(evs).points ELSE 0)
         + SumPoints(Tail(evs), c)

RECURSIVE MaxCreatedAt(_, _)
\* select max(created_at) from score_events where contact_id = c
MaxCreatedAt(evs, c) ==
    IF evs = << >> THEN NoTime
    ELSE LET rest == MaxCreatedAt(Tail(evs), c)
         IN IF Head(evs).contact_id = c THEN Max(Head(evs).created_at, rest) ELSE rest

(***************************************************************************)
(* record_score_event and recalculate_contact_score                        *)
(***************************************************************************)
\* record_score_event leaving the stage it read in place
RecordedRow_keeps_stage(row, points, t) ==
    LET engagement == Max(0, row.engagement_score + points)
        recency == calculate_recency_score(t, t)
        total == engagement + row.profile_score + recency
    IN [ row EXCEPT !.engagement_score = engagement,
                    !.last_activity_at = t,
                    !.recency_score = recency,
                    !.total_score = total,
                    !.grade = score_to_grade(total),
                    !.score_updated_at = t ]

\* the row record_score_event commits, from the row it read
RecordedRow(row, points, t) ==
    LET engagement == Max(0, row.engagement_score + points)
        recency == calculate_recency_score(t, t)
        total == engagement + row.profile_score + recency
    IN [ row EXCEPT !.engagement_score = engagement,
                    !.last_activity_at = t,
                    !.recency_score = recency,
                    !.total_score = total,
                    !.grade = score_to_grade(total),
                    !.lifecycle_stage = score_to_lifecycle(total, row.lifecycle_stage),
                    !.score_updated_at = t ]

\* the row recalculate_contact_score commits
RecalculatedRow(row, contact, evs, c, t) ==
    LET events_sum == SumPoints(evs, c)
        profile_score == calculate_profile_score(contact)
        last_event == MaxCreatedAt(evs, c)
        recency_score == calculate_recency_score(last_event, t)
        engagement == Max(0, events_sum)
        total == engagement + profile_score + recency_score
    IN [ row EXCEPT !.engagement_score = engagement,
                    !.profile_score = profile_score,
                    !.recency_score = recency_score,
                    !.total_score = total,
                    !.grade = score_to_grade(total),
                    !.lifecycle_stage = score_to_lifecycle(total, row.lifecycle_stage),
                    !.last_activity_at = last_event,
                    !.score_updated_at = t ]

\* POST /scoring/events: one request, run to its commit
RecordScoreEvent(c, points) ==
    /\ score_events' = Append(score_events, ScoreEvent(c, "", "manual", points, now))
    /\ scores' = Upsert(scores, c, RecordedRow(RowOf(c, now), points, now))
    /\ ret' = NoResult
    /\ UNCHANGED <<now, contacts, email_events, requests, other_tables>>

\* POST /scoring/contacts/{id}/recalculate
RecalculateContactScore(c) ==
    /\ IF c \notin DOMAIN contacts
       THEN /\ ret' = [op |-> "recalculate_contact_score", contact_id |-> c,
                       error |-> "ValueError"]
            /\ UNCHANGED scores
       ELSE /\ scores' = Upsert(scores, c,
                   RecalculatedRow(RowOf(c, now), contacts[c], score_events, c, now))
            /\ ret' = [op |-> "recalculate_contact_score", contact_id |-> c,
                       error |-> ""]
    /\ UNCHANGED <<now, contacts, score_events, email_events, requests, other_tables>>

(***************************************************************************)
(* tracking.py: the endpoints that write email_events                      *)
(***************************************************************************)
RECURSIVE CountOver(_, _)
\* the sum of a bag's multiplicities over the set S of its elements
CountOver(B, S) ==
    IF S = {} THEN 0
    ELSE LET e == CHOOSE x \in S : TRUE
         IN B[e] + CountOver(B, S \ {e})

AddEmailEvent(e) == email_events (+) SetToBag({e})

Unsubscribed(table, c) ==
    IF c \in DOMAIN table
    THEN [table EXCEPT ![c] = [@ EXCEPT !.subscribed = FALSE]]
    ELSE table

\* GET /track/open/{campaign_id}/{contact_id}: one open per campaign and contact
TrackOpen(k, c) ==
    /\ email_events' =
          IF \E e \in BagToSet(email_events) :
                e.campaign_id = k /\ e.contact_id = c /\ e.event_type = "opened"
          THEN email_events
          ELSE AddEmailEvent(EmailEvent(k, c, "opened", now))
    /\ ret' = NoResult
    /\ UNCHANGED <<now, contacts, score_events, scores, requests, other_tables>>

\* GET /track/click/{campaign_id}/{contact_id}
TrackClick(k, c) ==
    /\ email_events' = AddEmailEvent(EmailEvent(k, c, "clicked", now))
    /\ ret' = NoResult
    /\ UNCHANGED <<now, contacts, score_events, scores, requests, other_tables>>

\* GET /track/unsubscribe/{campaign_id}/{contact_id}
TrackUnsubscribe(k, c) ==
    /\ contacts' = Unsubscribed(contacts, c)
    /\ email_events' = AddEmailEvent(EmailEvent(k, c, "unsubscribed", now))
    /\ ret' = NoResult
    /\ UNCHANGED <<now, score_events, scores, requests, other_tables>>

(***************************************************************************)
(* contact_lifecycle.py                                                    *)
(***************************************************************************)
Stages ==
    {"new", "subscriber", "lead", "mql", "sql", "opportunity", "customer",
     "evangelist", "dormant", "churned"}

STAGE_ORDER ==
    [s \in Stages |->
        CASE s = "new" -> 0
          [] s = "subscriber" -> 1
          [] s = "lead" -> 2
          [] s = "mql" -> 3
          [] s = "sql" -> 4
          [] s = "opportunity" -> 5
          [] s = "customer" -> 6
          [] s = "evangelist" -> 7
          [] s = "dormant" -> -1
          [] s = "churned" -> -2]

TransitionRule(from, to, min_score, min_opens, min_clicks, min_days, max_inactive, descr) ==
    [ from_stage |-> from, to_stage |-> to, min_score |-> min_score,
      min_opens |-> min_opens, min_clicks |-> min_clicks,
      min_days_in_stage |-> min_days, max_inactive_days |-> max_inactive,
      description |-> descr ]

DEFAULT_RULES ==
    << TransitionRule("new", "subscriber", 500, 0, 0, 0, 0,
                      "Confirmed signup or first page view"),
       TransitionRule("subscriber", "lead", 1500, 2, 0, 0, 0,
                      "Opened 2+ emails, showing interest"),
       TransitionRule("lead", "mql", 3500, 0, 3, 3, 0,
                      "Clicked 3+ links, score above 35"),
       TransitionRule("mql", "sql", 5500, 0, 5, 5, 0,
                      "High engagement, ready for sales"),
       TransitionRule("sql", "opportunity", 7000, 0, 0, 3, 0,
                      "Very high engagement, active opportunity"),
       TransitionRule("opportunity", "customer", 8000, 0, 0, 0, 0,
                      "Converted - marked as customer"),
       TransitionRule("customer", "evangelist", 9000, 0, 10, 0, 0,
                      "Top advocate with highest engagement") >>

DORMANCY_RULES ==
    << TransitionRule("subscriber", "dormant", 0, 0, 0, 0, 60, "No engagement for 60 days"),
       TransitionRule("lead", "dormant", 0, 0, 0, 0, 45, "No engagement for 45 days"),
       TransitionRule("mql", "dormant", 0, 0, 0, 0, 30, "No engagement for 30 days"),
       TransitionRule("sql", "dormant", 0, 0, 0, 0, 21, "No engagement for 21 days") >>

ENGAGEMENT_DAYS == 90

\* max(created_at) over a set of rows, NoTime for none
LastOf(S) ==
    IF S = {} THEN NoTime
    ELSE (CHOOSE e \in S : \A f \in S : f.created_at <= e.created_at).created_at

get_contact_engagement(c, t, days) ==
    LET start == t - days
        rows == {e \in BagToSet(email_events) :
                    e.contact_id = c /\ e.created_at >= start}
        of(ty) == {e \in rows : e.event_type = ty}
        last_activity == LastOf(rows)
    IN [ total_opens |-> CountOver(email_events, of("opened")),
         total_clicks |-> CountOver(email_events, of("clicked")),
         total_bounces |-> CountOver(email_events, of("bounced")),
         total_unsubscribes |-> CountOver(email_events, of("unsubscribed")),
         last_open_at |-> LastOf(of("opened")),
         last_click_at |-> LastOf(of("clicked")),
         last_activity_at |-> last_activity,
         days_since_last_activity |->
            IF last_activity = NoTime THEN NoTime ELSE t - last_activity ]

TransitionResult(c, prev, new, transitioned, descr, reason) ==
    [ contact_id |-> c, previous_stage |-> prev, new_stage |-> new,
      transitioned |-> transitioned, rule_description |-> descr,
      reason |-> reason ]

\* the dormancy loop's test of one rule
DormancyFires(rule, current_stage, engagement) ==
    /\ rule.from_stage = current_stage
    /\ rule.max_inactive_days # 0
    /\ engagement.days_since_last_activity # NoTime
    /\ engagement.days_since_last_activity >= rule.max_inactive_days

\* the progression loop's test of one rule
ProgressionFires(rule, current_stage, score, engagement) ==
    /\ rule.from_stage = current_stage
    /\ ~(score < rule.min_score)
    /\ ~(engagement.total_opens < rule.min_opens)
    /\ ~(engagement.total_clicks < rule.min_clicks)

RECURSIVE ScanDormancy(_, _, _, _)
\* for rule in DORMANCY_RULES: the index of the first rule that returns, 0 for none
ScanDormancy(rules, i, current_stage, engagement) ==
    IF i > Len(rules) THEN 0
    ELSE IF DormancyFires(rules[i], current_stage, engagement) THEN i
    ELSE ScanDormancy(rules, i + 1, current_stage, engagement)

RECURSIVE ScanProgression_last(_, _, _, _, _)
\* ScanProgression that keeps scanning and returns the last rule that matches
ScanProgression_last(rules, i, current_stage, score, engagement) ==
    IF i > Len(rules) THEN 0
    ELSE LET later == ScanProgression_last(rules, i + 1, current_stage, score, engagement)
         IN IF later # 0 THEN later
            ELSE IF ProgressionFires(rules[i], current_stage, score, engagement) THEN i
            ELSE 0

RECURSIVE ScanProgression(_, _, _, _, _)
\* for rule in rules: the index of the first rule that returns, 0 for none
ScanProgression(rules, i, current_stage, score, engagement) ==
    IF i > Len(rules) THEN 0
    ELSE IF ProgressionFires(rules[i], current_stage, score, engagement) THEN i
    ELSE ScanProgression(rules, i + 1, current_stage, score, engagement)

\* custom_rules or DEFAULT_RULES
RulesOrDefault(custom_rules) ==
    IF custom_rules = << >> THEN DEFAULT_RULES ELSE custom_rules

evaluate_lifecycle(c, current_stage, score, custom_rules, t) ==
    LET rules == RulesOrDefault(custom_rules)
        engagement == get_contact_engagement(c, t, ENGAGEMENT_DAYS)
        d == ScanDormancy(DORMANCY_RULES, 1, current_stage, engagement)
        p == ScanProgression(rules, 1, current_stage, score, engagement)
    IN IF d # 0
       THEN TransitionResult(c, current_stage, DORMANCY_RULES[d].to_stage, TRUE,
                             DORMANCY_RULES[d].description, "inactive")
       ELSE IF engagement.total_unsubscribes > 0 /\ current_stage # "churned"
       THEN TransitionResult(c, current_stage, "churned", TRUE,
                             "Auto-churn on unsubscribe", "Contact unsubscribed")
       ELSE IF p # 0
       THEN TransitionResult(c, current_stage, rules[p].to_stage, TRUE,
                             rules[p].description, "progression")
       ELSE TransitionResult(c, current_stage, current_stage, FALSE, "",
                             "No matching transition rule")

\* cs.lifecycle_stage or "new"
StageOrNew(stage) == IF stage = "" THEN "new" ELSE stage

\* BatchOrders without the LIMIT clause
BatchOrders_unlimited(limit) ==
    LET n == Cardinality(DOMAIN scores)
    IN {o \in [1..n -> DOMAIN scores] :
          /\ \A i, j \in 1..n : i # j => o[i] # o[j]
          /\ \A i, j \in 1..n :
                i < j => scores[o[i]].score_updated_at >= scores[o[j]].score_updated_at}

\* order_by(score_updated_at.desc()).limit(limit): the orders the query may
\* return the rows in; rows with equal timestamps come in any order
BatchOrders(limit) ==
    LET n == Min(limit, Cardinality(DOMAIN scores))
    IN {o \in [1..n -> DOMAIN scores] :
          /\ \A i, j \in 1..n : i # j => o[i] # o[j]
          /\ \A i, j \in 1..n :
                i < j => scores[o[i]].score_updated_at >= scores[o[j]].score_updated_at
          /\ \A c \in DOMAIN scores :
                (\A i \in 1..n : o[i] # c) =>
                    \A i \in 1..n :
                        scores[o[i]].score_updated_at >= scores[c].score_updated_at}

BatchResults(order, t) ==
    [i \in DOMAIN order |->
        evaluate_lifecycle(order[i], StageOrNew(scores[order[i]].lifecycle_stage),
                           scores[order[i]].total_score, << >>, t)]

Transitioned(tr) == tr.transitioned

\* POST /lifecycle/process
ProcessLifecycleBatch(limit) ==
    \E order \in BatchOrders(limit) :
        LET results == BatchResults(order, now)
            transitions == SelectSeq(results, Transitioned)
        IN /\ scores' =
                [c \in DOMAIN scores |->
                    IF \E i \in DOMAIN order : order[i] = c /\ results[i].transitioned
                    THEN [scores[c] EXCEPT !.lifecycle_stage =
                            results[CHOOSE i \in DOMAIN order : order[i] = c].new_stage]
                    ELSE scores[c]]
           /\ ret' = [ op |-> "process_lifecycle_batch", limit |-> limit,
                       processed |-> Len(order),
                       transitioned |-> Len(transitions),
                       transitions |-> transitions ]
           /\ UNCHANGED <<now, contacts, score_events, email_events, requests, other_tables>>

Tick(d) ==
    /\ now' = now + d
    /\ ret' = NoResult
    /\ UNCHANGED <<contacts, score_events, scores, email_events, requests, other_tables>>

InitContacts ==
    [c \in ContactIds |->
        IF c = "c1"
        THEN [ email |-> "x", first_name |-> "x", last_name |-> "", phone |-> " ",
               country |-> "", custom_fields |-> "{a}", subscribed |-> TRUE ]
        ELSE [ email |-> "x", first_name |-> "x", last_name |-> "x", phone |-> "x",
               country |-> "x", custom_fields |-> "{a,b}", subscribed |-> TRUE ]]

Init ==
    /\ now = 0
    /\ contacts = InitContacts
    /\ score_events = << >>
    /\ scores = << >>
    /\ email_events = EmptyBag
    /\ requests = << >>
    /\ ret = NoResult
    /\ scoring_rules = << >>
    /\ suppression = EmptyBag
    /\ audiences = << >>
    /\ session = << >>
    /\ foreign_keys = FALSE
    /\ automation_rules = << >>
    /\ automation_logs = << >>

\* one contact's whole life: scoring, tracking, sweeps and the clock
Next ==
    \/ \E p \in Points :
          Len(score_events) < MaxScoreEvents /\ RecordScoreEvent("c1", p)
    \/ RecalculateContactScore("c1")
    \/ \E limit \in 1..MaxBatchLimit : ProcessLifecycleBatch(limit)
    \/ \E k \in Campaigns :
          BagCardinality(email_events) < MaxEmailEvents /\ TrackOpen(k, "c1")
    \/ BagCardinality(email_events) < MaxEmailEvents /\ TrackClick("k1", "c1")
    \/ BagCardinality(email_events) < MaxEmailEvents /\ TrackUnsubscribe("k1", "c1")
    \/ \E d \in TickDays : now + d <= MaxDay /\ Tick(d)

Spec == Init /\ [][Next]_vars

\* the contact has an unsubscribe event, of any age
HasUnsubscribed(c) ==
    \E e \in BagToSet(email_events) :
        e.contact_id = c /\ e.event_type = "unsubscribed"

(***************************************************************************)
(* evaluate_lifecycle on its own: POST /lifecycle/evaluate takes the stage  *)
(* and the score from the request; custom_rules is the service's parameter *)
(***************************************************************************)
\* two rule sets with two rules for the same from-stage, in both orders
CUSTOM_A ==
    << TransitionRule("lead", "mql", 3500, 0, 1, 0, 0, "a1"),
       TransitionRule("lead", "sql", 1500, 0, 0, 0, 0, "a2") >>

CUSTOM_B ==
    << TransitionRule("lead", "sql", 1500, 0, 0, 0, 0, "b1"),
       TransitionRule("lead", "mql", 3500, 0, 1, 0, 0, "b2") >>

\* a rule set with a rule to a stage of lower order
CUSTOM_C ==
    << TransitionRule("lead", "subscriber", 0, 0, 0, 0, 0, "c1") >>

CustomRuleSets == {<< >>, CUSTOM_A, CUSTOM_B, CUSTOM_C}

EvaluateLifecycle(c, current_stage, score, custom_rules) ==
    /\ ret' = [ op |-> "evaluate_lifecycle", score |-> score,
                custom_rules |-> custom_rules,
                result |-> evaluate_lifecycle(c, current_stage, score,
                                              custom_rules, now) ]
    /\ UNCHANGED <<now, contacts, score_events, scores, email_events, requests, other_tables>>

NextEval ==
    \/ \E k \in Campaigns :
          BagCardinality(email_events) < MaxEvalEmailEvents /\ TrackOpen(k, "c1")
    \/ BagCardinality(email_events) < MaxEvalEmailEvents /\ TrackClick("k1", "c1")
    \/ BagCardinality(email_events) < MaxEvalEmailEvents
          /\ TrackUnsubscribe("k1", "c1")
    \/ \E d \in EvalTickDays : now + d <= MaxEvalDay /\ Tick(d)
    \/ \E stage \in Stages, score \in EvalScores, rules \in CustomRuleSets :
          EvaluateLifecycle("c1", stage, score, rules)

SpecEval == Init /\ [][NextEval]_vars

(***************************************************************************)
(* The sweep over two contacts                                             *)
(***************************************************************************)
NextBatch ==
    \/ \E c \in ContactIds, p \in BatchPoints :
          Len(score_events) < MaxBatchScoreEvents /\ RecordScoreEvent(c, p)
    \/ \E c \in ContactIds :
          BagCardinality(email_events) < MaxBatchEmailEvents /\ TrackClick("k1", c)
    \/ \E c \in ContactIds :
          BagCardinality(email_events) < MaxBatchEmailEvents
            /\ TrackUnsubscribe("k1", c)
    \/ \E d \in TickDays : now + d <= MaxDay /\ Tick(d)
    \/ \E limit \in 1..MaxBatchLimit : ProcessLifecycleBatch(limit)

SpecBatch == Init /\ [][NextBatch]_vars

(***************************************************************************)
(* record_score_event as concurrent requests, each with its own session    *)
(* and transaction (database.py: get_db). A request reads the score row,   *)
(* computes the new values in memory and commits; the engine is created    *)
(* with the database's default isolation, under which a transaction sees   *)
(* what was committed when its SELECT ran and its UPDATE overwrites the    *)
(* columns it changed.                                                     *)
(***************************************************************************)
IdleRequest ==
    [ pc |-> "idle", contact_id |-> "", points |-> 0, found |-> FALSE,
      row |-> NewContactScore(0) ]

\* the UPDATE the unit of work emits: the columns whose value differs from
\* the one loaded, on the row as committed
MergedRow(committed, loaded, new) ==
    [f \in DOMAIN new |-> IF new[f] # loaded[f] THEN new[f] ELSE committed[f]]

\* the ledger after a session is closed without commit: its pending INSERT
\* is rolled back. The mutant keeps it.
EventsAfterRollback_kept(evs, event) == Append(evs, event)

EventsAfterRollback(evs, event) == evs

\* db.add(event); select(ContactScore): the request reads the row
RequestRead(r, c, points) ==
    /\ requests[r].pc = "idle"
    /\ requests' = [requests EXCEPT ![r] =
          [ pc |-> "read", contact_id |-> c, points |-> points,
            found |-> c \in DOMAIN scores, row |-> RowOf(c, now) ]]
    /\ ret' = NoResult
    /\ UNCHANGED <<now, contacts, score_events, scores, email_events, other_tables>>

\* the computation on the loaded row and db.commit()
RequestCommit(r) ==
    LET q == requests[r]
        c == q.contact_id
        event == ScoreEvent(c, "", "manual", q.points, now)
        new == RecordedRow(q.row, q.points, now)
    IN /\ q.pc = "read"
       /\ IF ~q.found /\ c \in DOMAIN scores
          THEN \* INSERT of a second row for the contact: unique constraint
               /\ requests' = [requests EXCEPT ![r].pc = "failed"]
               /\ score_events' = EventsAfterRollback(score_events, event)
               /\ UNCHANGED scores
          ELSE /\ requests' = [requests EXCEPT ![r].pc = "committed"]
               /\ score_events' = Append(score_events, event)
               /\ scores' = Upsert(scores, c,
                      IF q.found THEN MergedRow(scores[c], q.row, new) ELSE new)
       /\ ret' = NoResult
       /\ UNCHANGED <<now, contacts, email_events, other_tables>>

\* the caller abandons the request before the commit
RequestAbandon(r) ==
    LET q == requests[r]
        event == ScoreEvent(q.contact_id, "", "manual", q.points, now)
    IN /\ q.pc = "read"
       /\ requests' = [requests EXCEPT ![r].pc = "abandoned"]
       /\ score_events' = EventsAfterRollback(score_events, event)
       /\ ret' = NoResult
       /\ UNCHANGED <<now, contacts, scores, email_events, other_tables>>

\* the tables after one request POST /scoring/events with points -10 for c1
\* on day 0 and POST /scoring/contacts/c1/recalculate on day 61
SeededLedger == << ScoreEvent("c1", "", "manual", -1000, 0) >>

SeededScores ==
    [c \in {"c1"} |->
        RecalculatedRow(RecordedRow(NewContactScore(0), -1000, 0),
                        InitContacts[c], SeededLedger, c, 61)]

\* the requests arrive at the empty tables or at the seeded ones
InitConc ==
    /\ contacts = InitContacts
    /\ \/ now = 0 /\ score_events = << >> /\ scores = << >>
       \/ now = 61 /\ score_events = SeededLedger /\ scores = SeededScores
    /\ email_events = EmptyBag
    /\ requests = [r \in RequestIds |-> IdleRequest]
    /\ ret = NoResult
    /\ scoring_rules = << >>
    /\ suppression = EmptyBag
    /\ audiences = << >>
    /\ session = << >>
    /\ foreign_keys = TRUE
    /\ automation_rules = << >>
    /\ automation_logs = << >>

NextConc ==
    \/ \E r \in RequestIds, c \in ContactIds, p \in Points : RequestRead(r, c, p)
    \/ \E r \in RequestIds : RequestCommit(r)
    \/ \E r \in RequestIds : RequestAbandon(r)

SpecConc == InitConc /\ [][NextConc]_vars

(***************************************************************************)
(* process_scoring_rules over the stored scoring rules                     *)
(***************************************************************************)
\* a dict is the set of its <<key, value>> pairs; dict.get(key) is None for
\* a key it does not hold
NoValue == "None"

dict_get(d, k) ==
    IF \E p \in d : p[1] = k THEN (CHOOSE p \in d : p[1] = k)[2] ELSE NoValue

\* the metadata of a processed event
Metadatas == { {}, {<<"campaign_id", "k1">>}, {<<"campaign_id", "k2">>} }

EventTypes == {"email_opened", "email_clicked"}

\* json.loads(rule.condition): a dict, another JSON value, or JSONDecodeError
json_loads_condition(text) ==
    CASE text = "{}" -> [kind |-> "dict", items |-> {}]
      [] text = "{campaign_id: k1}" ->
            [kind |-> "dict", items |-> {<<"campaign_id", "k1">>}]
      [] text = "[1]" -> [kind |-> "list", items |-> {}]
      [] OTHER -> [kind |-> "JSONDecodeError", items |-> {}]

ScoringRule(event_type, condition, points, max_per_contact, active) ==
    [ event_type |-> event_type, condition |-> condition, points |-> points,
      max_per_contact |-> max_per_contact, active |-> active ]

\* rules as POST /scoring/rules stores them: the condition is json.dumps of
\* a dict
ApiRules ==
    [r \in {"r1", "r2", "r3", "r4"} |->
        CASE r = "r1" -> ScoringRule("email_opened", "{}", 500, 1, TRUE)
          [] r = "r2" -> ScoringRule("email_opened", "{campaign_id: k1}", 1000, 0, TRUE)
          [] r = "r3" -> ScoringRule("email_opened", "{}", 300, 0, FALSE)
          [] r = "r4" -> ScoringRule("email_clicked", "{}", 200, 2, TRUE)]

\* the same table with two rows whose condition was not written by the API:
\* a text that is no JSON and a JSON text that is no object
LegacyRules ==
    [r \in DOMAIN ApiRules \cup {"r5", "r6"} |->
        CASE r = "r5" -> ScoringRule("email_opened", "not json", 100, 2, TRUE)
          [] r = "r6" -> ScoringRule("email_opened", "[1]", 100, 0, TRUE)
          [] OTHER -> ApiRules[r]]

RuleTables == {ApiRules, LegacyRules}

\* select ScoringRule where active is True and event_type == event_type
ActiveRules(event_type) ==
    {r \in DOMAIN scoring_rules :
        scoring_rules[r].active /\ scoring_rules[r].event_type = event_type}

\* the orders a query without ORDER BY may return the rows of S in
Orders(S) ==
    {o \in [1..Cardinality(S) -> S] :
        \A i, j \in 1..Cardinality(S) : i # j => o[i] # o[j]}

RECURSIVE CountRuleEvents(_, _, _)
\* select count(ScoreEvent.id) where contact_id == c and rule_id == r
CountRuleEvents(evs, c, r) ==
    IF evs = << >> THEN 0
    ELSE (IF Head(evs).contact_id = c /\ Head(evs).rule_id = r THEN 1 ELSE 0)
         + CountRuleEvents(Tail(evs), c, r)

\* RuleOutcome without the max_per_contact check
RuleOutcome_uncapped(r, rule, c, evs, metadata) ==
    IF rule.condition # "" /\ rule.condition # "{}"
    THEN LET condition == json_loads_condition(rule.condition)
         IN IF condition.kind = "JSONDecodeError" THEN "emit"
            ELSE IF metadata # {}
            THEN IF condition.kind # "dict" THEN "raise"
                 ELSE IF \A p \in condition.items : dict_get(metadata, p[1]) = p[2]
                      THEN "emit" ELSE "skip"
            ELSE "skip"
    ELSE "emit"

\* one pass of the loop body for a rule: "skip" (continue), "emit"
\* (record_score_event) or "raise" (condition.items() on a value that has
\* no items)
RuleOutcome(r, rule, c, evs, metadata) ==
    IF rule.max_per_contact > 0 /\ CountRuleEvents(evs, c, r) >= rule.max_per_contact
    THEN "skip"
    ELSE IF rule.condition # "" /\ rule.condition # "{}"
    THEN LET condition == json_loads_condition(rule.condition)
         IN IF condition.kind = "JSONDecodeError" THEN "emit"
            ELSE IF metadata # {}
            THEN IF condition.kind # "dict" THEN "raise"
                 ELSE IF \A p \in condition.items : dict_get(metadata, p[1]) = p[2]
                      THEN "emit" ELSE "skip"
            ELSE "skip"
    ELSE "emit"

\* record_score_event inside a call, on the tables as the call has left them;
\* with foreign keys enforced the INSERT for an unknown contact fails
RecordInto(st, c, rule_id, event_type, points, t) ==
    IF foreign_keys /\ c \notin DOMAIN contacts
    THEN [st EXCEPT !.error = "IntegrityError"]
    ELSE [st EXCEPT
            !.events = Append(@, ScoreEvent(c, rule_id, event_type, points, t)),
            !.scores = Upsert(@, c,
                RecordedRow(IF c \in DOMAIN st.scores THEN st.scores[c]
                            ELSE NewContactScore(t), points, t)),
            !.emitted = Append(@, rule_id)]

RECURSIVE ApplyRules(_, _, _, _, _, _, _)
\* for rule in rules: ... ; an exception ends the loop, the events recorded
\* before it are committed
ApplyRules(order, i, c, event_type, metadata, st, t) ==
    IF i > Len(order) \/ st.error # "" THEN st
    ELSE LET r == order[i]
             outcome == RuleOutcome(r, scoring_rules[r], c, st.events, metadata)
             next == CASE outcome = "skip" -> st
                       [] outcome = "raise" -> [st EXCEPT !.error = "AttributeError"]
                       [] OTHER -> RecordInto(st, c, r, event_type,
                                              scoring_rules[r].points, t)
         IN ApplyRules(order, i + 1, c, event_type, metadata, next, t)

\* POST /scoring/events/process
ProcessScoringRules(c, event_type, metadata) ==
    \E order \in Orders(ActiveRules(event_type)) :
        LET out == ApplyRules(order, 1, c, event_type, metadata,
                       [ events |-> score_events, scores |-> scores,
                         emitted |-> << >>, error |-> "" ], now)
        IN /\ score_events' = out.events
           /\ scores' = out.scores
           /\ ret' = [ op |-> "process_scoring_rules", contact_id |-> c,
                       event_type |-> event_type, metadata |-> metadata,
                       emitted |-> out.emitted,
                       error |-> out.error ]
           /\ UNCHANGED <<now, contacts, email_events, requests, other_tables>>

\* POST /scoring/events for any contact id, known or not
CreateScoreEvent(c, points) ==
    LET out == RecordInto([ events |-> score_events, scores |-> scores,
                            emitted |-> << >>, error |-> "" ],
                          c, "", "manual", points, now)
    IN /\ score_events' = out.events
       /\ scores' = out.scores
       /\ ret' = [ op |-> "record_score_event", contact_id |-> c,
                   error |-> out.error ]
       /\ UNCHANGED <<now, contacts, email_events, requests, other_tables>>

\* the ids a request may name: a contact and an id of no contact
RequestedContactIds == {"c1", "c9"}

InitRules ==
    /\ now = 0
    /\ contacts = InitContacts
    /\ score_events = << >>
    /\ scores = << >>
    /\ email_events = EmptyBag
    /\ requests = << >>
    /\ ret = NoResult
    /\ scoring_rules \in RuleTables
    /\ suppression = EmptyBag
    /\ audiences = << >>
    /\ session = << >>
    /\ foreign_keys \in BOOLEAN
    /\ automation_rules = << >>
    /\ automation_logs = << >>

NextRules ==
    \/ \E c \in RequestedContactIds, ty \in EventTypes, m \in Metadatas :
          Len(score_events) < MaxRuleLedger /\ ProcessScoringRules(c, ty, m)
    \/ \E c \in RequestedContactIds :
          Len(score_events) < MaxRuleLedger /\ CreateScoreEvent(c, 1500)
    \/ \E c \in RequestedContactIds : RecalculateContactScore(c)

SpecRules == InitRules /\ [][NextRules]_vars

(***************************************************************************)
(* audience_builder.py: rules, conditions and the query of an audience.    *)
(* A text is the sequence of its characters' code points, so that          *)
(* comparison, case folding and pattern matching are computed; the rows    *)
(* hold no NULL and the rule values are texts that are no JSON.            *)
(***************************************************************************)
\* str.lower() / the case folding of ILIKE
lower(s) == [i \in DOMAIN s |-> IF s[i] \in 65..90 THEN s[i] + 32 ELSE s[i]]

\* text comparison of the database: s < t
TextLess(s, t) ==
    \E k \in 1..(Len(t)) :
        /\ \A j \in 1..(k - 1) : j <= Len(s) /\ s[j] = t[j]
        /\ (k > Len(s) \/ s[k] < t[k])

\* col ILIKE '%v%', 'v%', '%v'
ilike_contains(col, v) ==
    \E i \in 1..(Len(col) + 1) :
        /\ i + Len(v) - 1 <= Len(col)
        /\ SubSeq(lower(col), i, i + Len(v) - 1) = lower(v)

ilike_starts_with(col, v) ==
    Len(v) <= Len(col) /\ SubSeq(lower(col), 1, Len(v)) = lower(v)

ilike_ends_with(col, v) ==
    /\ Len(v) <= Len(col)
    /\ SubSeq(lower(col), Len(col) - Len(v) + 1, Len(col)) = lower(v)

VALID_FIELDS ==
    {"email", "first_name", "last_name", "phone", "country", "language",
     "subscribed", "created_at"}

VALID_OPERATORS ==
    {"eq", "neq", "contains", "starts_with", "ends_with", "gt", "lt", "gte",
     "lte", "in", "not_in", "between", "is_set", "not_set"}

\* a rule dict; a key that is absent or empty is ""
AudienceRuleDict(field, operator, value) ==
    [field |-> field, operator |-> operator, value |-> value]

\* _validate_rule: "" when the rule passes, else the error raised
validate_rule(rule) ==
    IF rule.field = "" THEN "ValueError"
    ELSE IF rule.operator = "" THEN "ValueError"
    ELSE IF rule.field \notin VALID_FIELDS THEN "ValueError"
    ELSE IF rule.operator \notin VALID_OPERATORS THEN "ValueError"
    ELSE ""

\* for rule in rules: self._validate_rule(rule)
validate_rules(rules) ==
    IF \E i \in DOMAIN rules : validate_rule(rules[i]) # ""
    THEN "ValueError" ELSE ""

\* the columns of Contact that getattr(Contact, field_name, None) finds
ContactColumns == VALID_FIELDS \cup {"id", "custom_fields", "updated_at"}

\* _build_condition: the SQL condition of a rule, as the predicate it is on
\* a contact row, or None
build_condition(rule) ==
    IF rule.field \notin ContactColumns THEN [kind |-> "None"]
    ELSE IF rule.operator \in VALID_OPERATORS \ {"between"}
    THEN [kind |-> "condition", field |-> rule.field,
          operator |-> rule.operator, value |-> rule.value]
    ELSE [kind |-> "None"]

\* the truth of a condition on a row; the value of "in" and "not_in" is a
\* single text, which the code wraps in a list
ConditionTrue(cond, row) ==
    LET col == row[cond.field]
        value == cond.value
    IN CASE cond.operator = "eq" -> col = value
         [] cond.operator = "neq" -> col # value
         [] cond.operator = "contains" -> ilike_contains(col, value)
         [] cond.operator = "starts_with" -> ilike_starts_with(col, value)
         [] cond.operator = "ends_with" -> ilike_ends_with(col, value)
         [] cond.operator = "gt" -> TextLess(value, col)
         [] cond.operator = "lt" -> TextLess(col, value)
         [] cond.operator = "gte" -> ~TextLess(col, value)
         [] cond.operator = "lte" -> ~TextLess(value, col)
         [] cond.operator = "in" -> col \in {value}
         [] cond.operator = "not_in" -> col \notin {value}
         [] cond.operator = "is_set" -> col # << >>
         [] cond.operator = "not_set" -> col = << >>

\* SELECT email FROM suppression_list
SuppressedEmails == { row.email : row \in BagToSet(suppression) }

\* build_query with the conditions joined by AND whatever the match_type
build_query_and(audience) ==
    LET built == [i \in DOMAIN audience.rules |-> build_condition(audience.rules[i])]
        conditions == SelectSeq(built, LAMBDA b : b.kind # "None")
    IN { c \in DOMAIN contacts :
          /\ \A i \in DOMAIN conditions : ConditionTrue(conditions[i], contacts[c])
          /\ audience.exclude_unsubscribed => contacts[c].subscribed = TRUE
          /\ audience.exclude_suppressed => contacts[c].email \notin SuppressedEmails }

\* build_query: the ids of the contacts the query of an audience selects
build_query(audience) ==
    LET built == [i \in DOMAIN audience.rules |-> build_condition(audience.rules[i])]
        conditions == SelectSeq(built, LAMBDA b : b.kind # "None")
    IN { c \in DOMAIN contacts :
          /\ conditions # << >> =>
                IF audience.match_type = "any"
                THEN \E i \in DOMAIN conditions : ConditionTrue(conditions[i], contacts[c])
                ELSE \A i \in DOMAIN conditions : ConditionTrue(conditions[i], contacts[c])
          /\ audience.exclude_unsubscribed => contacts[c].subscribed = TRUE
          /\ audience.exclude_suppressed => contacts[c].email \notin SuppressedEmails }

(***************************************************************************)
(* The audiences table and the builder's session. audiences holds the      *)
(* committed rows, an audience's id being its index; session holds the     *)
(* Audience objects of the AsyncSession the AudienceBuilder was made with, *)
(* with the attribute values assigned in memory. A commit of that session  *)
(* flushes every changed object, so it writes session to audiences.        *)
(***************************************************************************)
MaxAudiences == 1

\* the texts "US", "DE", "en", "de", "A", "Z" and the stored emails
US == <<85, 83>>
DE == <<68, 69>>
en == <<101, 110>>
de == <<100, 101>>
EmailAnn == <<97, 64, 120>>
EmailBob == <<66, 64, 120>>
EmailCy == <<99, 64, 120>>

\* three contacts; POST /contacts stores the email as it was sent
AudienceContacts ==
    [c \in {"c1", "c2", "c3"} |->
        CASE c = "c1" -> [ email |-> EmailAnn, first_name |-> << >>, last_name |-> << >>,
                           phone |-> << >>, country |-> US, language |-> en,
                           subscribed |-> TRUE, created_at |-> 0 ]
          [] c = "c2" -> [ email |-> EmailBob, first_name |-> << >>, last_name |-> << >>,
                           phone |-> << >>, country |-> DE, language |-> en,
                           subscribed |-> TRUE, created_at |-> 0 ]
          [] c = "c3" -> [ email |-> EmailCy, first_name |-> << >>, last_name |-> << >>,
                           phone |-> << >>, country |-> US, language |-> de,
                           subscribed |-> FALSE, created_at |-> 0 ]]

RULE_US == AudienceRuleDict("country", "eq", US)
RULE_EN == AudienceRuleDict("language", "eq", en)
RULE_BETWEEN == AudienceRuleDict("country", "between", US)
RULE_LIKE == AudienceRuleDict("email", "like", US)
RULE_NO_FIELD == AudienceRuleDict("", "eq", US)

\* rule lists every rule of which passes validation
ValidRuleLists ==
    { << >>, <<RULE_US>>, <<RULE_US, RULE_EN>>, <<RULE_BETWEEN>> }

\* rule lists with a rule that fails validation, after one that passes
InvalidRuleLists == { <<RULE_US, RULE_LIKE>>, <<RULE_NO_FIELD>> }

MatchTypes == {"all", "any"}

\* exclude_unsubscribed, exclude_suppressed
Exclusions == { <<TRUE, TRUE>>, <<TRUE, FALSE>>, <<FALSE, TRUE>> }

Audience(name, rules, match_type, exclude_unsubscribed, exclude_suppressed) ==
    [ name |-> name, rules |-> rules, match_type |-> match_type,
      exclude_unsubscribed |-> exclude_unsubscribed,
      exclude_suppressed |-> exclude_suppressed,
      exclude_bounced |-> TRUE, estimated_size |-> 0,
      last_estimated_at |-> NoTime ]

\* create_audience; queries counts the statements the call has executed
CreateAudience(name, rules, match_type, excl) ==
    /\ IF validate_rules(rules) # ""
       THEN /\ ret' = [ op |-> "create_audience", error |-> "ValueError",
                        audience_id |-> 0, queries |-> 0 ]
            /\ UNCHANGED <<audiences, session>>
       ELSE /\ session' = Append(session,
                              Audience(name, rules, match_type, excl[1], excl[2]))
            /\ audiences' = session'
            /\ ret' = [ op |-> "create_audience", error |-> "",
                        audience_id |-> Len(session'), queries |-> 2 ]
    /\ UNCHANGED <<now, contacts, score_events, scores, email_events, requests,
                   scoring_rules, suppression, foreign_keys, automation_rules,
                   automation_logs>>

\* update_audience(audience_id, name, rules, match_type); name and
\* match_type "" are the arguments not given, rules is the set of the rule
\* list given: empty for the default None
UpdateAudience(id, name, rules, match_type) ==
    /\ IF id \notin DOMAIN session
       THEN /\ ret' = [ op |-> "update_audience", error |-> "", audience_id |-> 0,
                        queries |-> 1 ]
            /\ UNCHANGED <<audiences, session>>
       ELSE LET named == IF name # "" THEN [session EXCEPT ![id].name = name]
                         ELSE session
            IN IF \E given \in rules : validate_rules(given) # ""
               THEN /\ session' = named
                    /\ ret' = [ op |-> "update_audience", error |-> "ValueError",
                                audience_id |-> id, queries |-> 1 ]
                    /\ UNCHANGED audiences
               ELSE LET ruled == IF rules # {}
                                 THEN [named EXCEPT ![id].rules = CHOOSE given \in rules : TRUE]
                                 ELSE named
                        matched == IF match_type # ""
                                   THEN [ruled EXCEPT ![id].match_type = match_type]
                                   ELSE ruled
                    IN /\ session' = matched
                       /\ audiences' = matched
                       /\ ret' = [ op |-> "update_audience", error |-> "",
                                   audience_id |-> id, queries |-> 3 ]
    /\ UNCHANGED <<now, contacts, score_events, scores, email_events, requests,
                   scoring_rules, suppression, foreign_keys, automation_rules,
                   automation_logs>>

\* estimate_size that stores the count without the time
EstimateSize_untimed(id) ==
    /\ id \in DOMAIN session
    /\ LET count == Cardinality(build_query(session[id]))
       IN /\ session' = [session EXCEPT ![id].estimated_size = count]
          /\ audiences' = session'
          /\ ret' = [ op |-> "estimate_size", error |-> "", audience_id |-> id,
                      count |-> count ]
    /\ UNCHANGED <<now, contacts, score_events, scores, email_events, requests,
                   scoring_rules, suppression, foreign_keys, automation_rules,
                   automation_logs>>

\* estimate_size(audience) for an Audience object of the session
EstimateSize(id) ==
    /\ id \in DOMAIN session
    /\ LET count == Cardinality(build_query(session[id]))
       IN /\ session' = [session EXCEPT ![id].estimated_size = count,
                                       ![id].last_estimated_at = now]
          /\ audiences' = session'
          /\ ret' = [ op |-> "estimate_size", error |-> "", audience_id |-> id,
                      count |-> count ]
    /\ UNCHANGED <<now, contacts, score_events, scores, email_events, requests,
                   scoring_rules, suppression, foreign_keys, automation_rules,
                   automation_logs>>

\* get_contacts(audience): the ids of the rows returned (there are fewer
\* contacts than the default limit)
GetContacts(id) ==
    /\ id \in DOMAIN session
    /\ ret' = [ op |-> "get_contacts", error |-> "", audience_id |-> id,
                contacts |-> build_query(session[id]) ]
    /\ UNCHANGED <<now, contacts, score_events, scores, email_events, requests,
                   other_tables>>

\* the caller rolls the session back or closes it: the objects are loaded
\* again from the committed rows
SessionRollback ==
    /\ session # audiences
    /\ session' = audiences
    /\ ret' = [ op |-> "rollback", error |-> "" ]
    /\ UNCHANGED <<now, contacts, score_events, scores, email_events, requests,
                   scoring_rules, suppression, audiences, foreign_keys, automation_rules,
                   automation_logs>>

\* the arguments of update_audience
UpdateNames == {"", "B"}
UpdateRules == { {}, {<<RULE_EN>>}, {<<RULE_US, RULE_LIKE>>} }
UpdateMatchTypes == {"", "any"}

InitAudience ==
    /\ now = 0
    /\ contacts = AudienceContacts
    /\ score_events = << >>
    /\ scores = << >>
    /\ email_events = EmptyBag
    /\ requests = << >>
    /\ ret = NoResult
    /\ scoring_rules = << >>
    /\ suppression = EmptyBag
    /\ audiences = << >>
    /\ session = << >>
    /\ foreign_keys = FALSE
    /\ automation_rules = << >>
    /\ automation_logs = << >>

NextAudience ==
    \/ \E rules \in ValidRuleLists \cup InvalidRuleLists, m \in MatchTypes,
          excl \in Exclusions :
          Len(session) < MaxAudiences /\ CreateAudience("A", rules, m, excl)
    \/ \E id \in 1..(Len(session) + 1), name \in UpdateNames,
          rules \in UpdateRules, m \in UpdateMatchTypes :
          UpdateAudience(id, name, rules, m)
    \/ \E id \in DOMAIN session : EstimateSize(id)
    \/ \E id \in DOMAIN session : GetContacts(id)
    \/ SessionRollback

SpecAudience == InitAudience /\ [][NextAudience]_vars

(***************************************************************************)
(* Evaluation of stored audiences against the suppression list: the        *)
(* suppression endpoints run in a session of their own (api/scoring.py,    *)
(* get_db), the builder reads what they committed.                         *)
(***************************************************************************)
\* a row of suppression_list
SuppressionEntry(email, reason) == [email |-> email, reason |-> reason]

\* the rows of suppression_list with the email, lower-cased
RowsOf(email) == { row \in BagToSet(suppression) : row.email = lower(email) }

\* check_suppression: the entry of the email, as the set of the rows found;
\* empty for None
check_suppression(email) == RowsOf(email)

\* add_to_suppression that inserts a row whether or not the email has one
Added_insert(table, email, reason) ==
    table (+) SetToBag({SuppressionEntry(lower(email), reason)})

\* the table after add_to_suppression(email, reason): the row holds the
\* lower-cased email; a call for an email that has a row sets the reason of
\* that row
Added(table, email, reason) ==
    LET found == { row \in BagToSet(table) : row.email = lower(email) }
    IN IF found # {}
       THEN SetToBag((BagToSet(table) \ found)
                        \cup {SuppressionEntry(lower(email), reason)})
       ELSE table (+) SetToBag({SuppressionEntry(lower(email), reason)})

\* add_to_suppression
AddToSuppression(email, reason) ==
    /\ suppression' = Added(suppression, email, reason)
    /\ ret' = [ op |-> "add_to_suppression", error |-> "", email |-> email,
                reason |-> reason ]
    /\ UNCHANGED <<now, contacts, score_events, scores, email_events, requests,
                   scoring_rules, audiences, session, foreign_keys, automation_rules,
                   automation_logs>>

\* remove_from_suppression: returns whether a row was deleted
RemoveFromSuppression(email) ==
    /\ suppression' = SetToBag(BagToSet(suppression) \ RowsOf(email))
    /\ ret' = [ op |-> "remove_from_suppression", error |-> "", email |-> email,
                removed |-> RowsOf(email) # {} ]
    /\ UNCHANGED <<now, contacts, score_events, scores, email_events, requests,
                   scoring_rules, audiences, session, foreign_keys, automation_rules,
                   automation_logs>>

\* preview_rules: estimate_size of an Audience object that is never added
\* to the session, so the commit stores nothing
PreviewRules(rules, match_type) ==
    /\ ret' = [ op |-> "preview_rules", error |-> "", rules |-> rules,
                match_type |-> match_type,
                count |-> Cardinality(build_query(
                             Audience("_preview", rules, match_type, TRUE, TRUE))) ]
    /\ UNCHANGED <<now, contacts, score_events, scores, email_events, requests,
                   other_tables>>

\* n / d in ten-thousandths, the further digits cut off
round4_floor(n, d) == (n * 10000) \div d

\* round(n / d, 4) in ten-thousandths, ties to the even digit
round4(n, d) ==
    LET q == (n * 10000) \div d
        r == (n * 10000) % d
    IN IF 2 * r > d \/ (2 * r = d /\ q % 2 = 1) THEN q + 1 ELSE q

\* overlap_analysis; jaccard_index in ten-thousandths
OverlapAnalysis(audience_id_a, audience_id_b) ==
    /\ IF audience_id_a \notin DOMAIN session \/ audience_id_b \notin DOMAIN session
       THEN ret' = [ op |-> "overlap_analysis", error |-> "Audience not found",
                     audience_a |-> audience_id_a, audience_b |-> audience_id_b ]
       ELSE LET contacts_a == build_query(session[audience_id_a])
                contacts_b == build_query(session[audience_id_b])
                overlap == contacts_a \cap contacts_b
                union == contacts_a \cup contacts_b
            IN ret' = [ op |-> "overlap_analysis", error |-> "",
                        audience_a |-> audience_id_a, audience_b |-> audience_id_b,
                        size_a |-> Cardinality(contacts_a),
                        size_b |-> Cardinality(contacts_b),
                        overlap |-> Cardinality(overlap),
                        union |-> Cardinality(union),
                        jaccard_index |->
                            IF union # {}
                            THEN round4(Cardinality(overlap), Cardinality(union))
                            ELSE 0 ]
    /\ UNCHANGED <<now, contacts, score_events, scores, email_events, requests,
                   other_tables>>

\* the rows create_audience can have stored
StoredAudiences ==
    { Audience("A", rules, m, excl[1], excl[2]) :
        rules \in ValidRuleLists, m \in MatchTypes, excl \in Exclusions }

\* the emails the suppression endpoints are called with: the contacts'
\* emails as they are stored
RequestedEmails == { AudienceContacts[c].email : c \in DOMAIN AudienceContacts }

InitSelect ==
    /\ now = 0
    /\ contacts = AudienceContacts
    /\ score_events = << >>
    /\ scores = << >>
    /\ email_events = EmptyBag
    /\ requests = << >>
    /\ ret = NoResult
    /\ scoring_rules = << >>
    /\ suppression = EmptyBag
    /\ audiences \in [1..2 -> StoredAudiences]
    /\ session = audiences
    /\ foreign_keys = FALSE
    /\ automation_rules = << >>
    /\ automation_logs = << >>

NextSelect ==
    \/ \E email \in RequestedEmails : AddToSuppression(email, "manual")
    \/ \E email \in RequestedEmails : RemoveFromSuppression(email)
    \/ \E id \in DOMAIN session : GetContacts(id)
    \/ \E rules \in ValidRuleLists, m \in MatchTypes : PreviewRules(rules, m)
    \/ \E a \in 1..3, b \in 1..3 : OverlapAnalysis(a, b)

SpecSelect == InitSelect /\ [][NextSelect]_vars

(***************************************************************************)
(* The cached estimate of an audience while time passes and the contacts   *)
(* and the suppression list change.                                        *)
(***************************************************************************)
MaxCacheDay == 1
MaxCacheEmailEvents == 1

\* the arguments of create_audience and update_audience in this
\* specification
CacheRuleLists == { << >>, <<RULE_US>> }
CacheUpdateRules == { {}, {<<RULE_EN>>}, {<<RULE_US, RULE_LIKE>>} }

NextCache ==
    \/ \E rules \in CacheRuleLists :
          Len(session) < MaxAudiences
             /\ CreateAudience("A", rules, "all", <<TRUE, TRUE>>)
    \/ \E id \in DOMAIN session, rules \in CacheUpdateRules :
          UpdateAudience(id, "B", rules, "")
    \/ \E id \in DOMAIN session : EstimateSize(id)
    \/ \E id \in DOMAIN session : GetContacts(id)
    \/ AddToSuppression(EmailAnn, "manual")
    \/ RemoveFromSuppression(EmailAnn)
    \/ BagCardinality(email_events) < MaxCacheEmailEvents
          /\ TrackUnsubscribe("k1", "c1")
    \/ now + 1 <= MaxCacheDay /\ Tick(1)

SpecCache == InitAudience /\ [][NextCache]_vars

(***************************************************************************)
(* The suppression endpoints on their own (api/scoring.py)                 *)
(***************************************************************************)
\* the addresses the endpoints are called with: two that differ only in
\* the case of a letter, and another
EmailBobLower == <<98, 64, 120>>
SuppressionEmails == {EmailAnn, EmailBob, EmailBobLower, EmailCy}
SuppressionReasons == {"manual", "bounce"}
BulkEmails == { <<EmailAnn, EmailBob>>, <<EmailBob, EmailBobLower>> }

RECURSIVE AddedAll(_, _, _, _)
\* for email in body.emails: await add_to_suppression(db, email, ...)
AddedAll(table, emails, i, reason) ==
    IF i > Len(emails) THEN table
    ELSE AddedAll(Added(table, emails[i], reason), emails, i + 1, reason)

\* POST /scoring/suppression/bulk
BulkSuppress(emails, reason) ==
    /\ suppression' = AddedAll(suppression, emails, 1, reason)
    /\ ret' = [ op |-> "bulk_suppress", error |-> "", emails |-> emails,
                suppressed |-> Len(emails) ]
    /\ UNCHANGED <<now, contacts, score_events, scores, email_events, requests,
                   scoring_rules, audiences, session, foreign_keys, automation_rules,
                   automation_logs>>

\* GET /scoring/suppression/check
CheckSuppression(email) ==
    /\ ret' = [ op |-> "check_suppression", error |-> "", email |-> email,
                entry |-> check_suppression(email) ]
    /\ UNCHANGED <<now, contacts, score_events, scores, email_events, requests,
                   other_tables>>

NextSuppression ==
    \/ \E email \in SuppressionEmails, reason \in SuppressionReasons :
          AddToSuppression(email, reason)
    \/ \E email \in SuppressionEmails : RemoveFromSuppression(email)
    \/ \E email \in SuppressionEmails : CheckSuppression(email)
    \/ \E emails \in BulkEmails : BulkSuppress(emails, "manual")

SpecSuppression == InitAudience /\ [][NextSuppression]_vars

(***************************************************************************)
(* automation_rules.py: RuleEngine._eval_condition, next to the condition  *)
(* AudienceBuilder._build_condition compiles, on the same pair of texts    *)
(***************************************************************************)
\* expected in str(actual)
text_in(expected, actual) ==
    \E i \in 1..(Len(actual) + 1) :
        /\ i + Len(expected) - 1 <= Len(actual)
        /\ SubSeq(actual, i, i + Len(expected) - 1) = expected

\* RuleEngine._eval_condition on an actual value that is a text
eval_condition(actual, operator, expected) ==
    CASE operator = "eq" -> actual = expected
      [] operator = "neq" -> actual # expected
      [] operator = "gt" -> TextLess(expected, actual)
      [] operator = "lt" -> TextLess(actual, expected)
      [] operator = "gte" -> ~TextLess(actual, expected)
      [] operator = "lte" -> ~TextLess(expected, actual)
      [] operator = "contains" ->
            IF actual # << >> THEN text_in(expected, actual) ELSE FALSE
      [] operator = "in" -> actual \in {expected}
      [] operator = "is_set" -> actual # << >>
      [] operator = "not_set" -> actual = << >>
      [] OTHER -> FALSE

\* the operators the audience evaluator compiles
AudienceOperators == VALID_OPERATORS \ {"between"}

\* the texts "US", "us", "U", "" and "DE"
OperandTexts == { US, lower(US), <<85>>, << >>, DE }

\* the condition _build_condition compiles for the operator and the
\* expected value, on a row whose column holds the actual value
AudienceTruth(actual, operator, expected) ==
    ConditionTrue(build_condition(AudienceRuleDict("country", operator, expected)),
                  [country |-> actual])

\* one evaluation of a condition by both evaluators
EvalCondition(actual, operator, expected) ==
    /\ ret' = [ op |-> "eval_condition", operator |-> operator,
                actual |-> actual, expected |-> expected,
                rule_engine |-> eval_condition(actual, operator, expected),
                audience |-> AudienceTruth(actual, operator, expected) ]
    /\ UNCHANGED <<now, contacts, score_events, scores, email_events, requests,
                   other_tables>>

NextOperators ==
    \E actual \in OperandTexts, operator \in AudienceOperators,
       expected \in OperandTexts : EvalCondition(actual, operator, expected)

SpecOperators == InitAudience /\ [][NextOperators]_vars

(***************************************************************************)
(* api/contacts.py: DELETE /contacts/{contact_id}, next to the scoring     *)
(* endpoints. No model declares a cascade and no foreign key an ON DELETE  *)
(* action, so the DELETE removes the row of contacts only; a database that *)
(* enforces foreign keys refuses it while a row refers to the contact.     *)
(***************************************************************************)
MaxDeleteLedger == 2

\* whether a row of score_events, contact_scores or email_events refers to
\* the contact
Referenced(c) ==
    \/ \E i \in DOMAIN score_events : score_events[i].contact_id = c
    \/ c \in DOMAIN scores
    \/ \E e \in BagToSet(email_events) : e.contact_id = c

\* delete_contact
DeleteContact(c) ==
    /\ IF c \notin DOMAIN contacts
       THEN /\ ret' = [op |-> "delete_contact", contact_id |-> c, error |-> "404"]
            /\ UNCHANGED contacts
       ELSE IF foreign_keys /\ Referenced(c)
       THEN /\ ret' = [op |-> "delete_contact", contact_id |-> c,
                       error |-> "IntegrityError"]
            /\ UNCHANGED contacts
       ELSE /\ contacts' = [d \in DOMAIN contacts \ {c} |-> contacts[d]]
            /\ ret' = [op |-> "delete_contact", contact_id |-> c, error |-> ""]
    /\ UNCHANGED <<now, score_events, scores, email_events, requests, other_tables>>

NextDelete ==
    \/ \E c \in ContactIds :
          Len(score_events) < MaxDeleteLedger /\ CreateScoreEvent(c, 1500)
    \/ \E c \in ContactIds : RecalculateContactScore(c)
    \/ \E c \in ContactIds : DeleteContact(c)

SpecDelete == InitRules /\ [][NextDelete]_vars

(***************************************************************************)
(* calculate_profile_score on its own: PATCH /contacts/{id} fills in and   *)
(* blanks the fields, the stored custom_fields text starts as any text     *)
(***************************************************************************)
FieldTexts == {"", " ", "x"}
PatchFields == {"email", "first_name", "last_name", "phone", "country"}
\* json.dumps of the dicts a request can carry
PatchCustomTexts == {"{}", "{a}", "{a,b}"}

\* PATCH /contacts/{id} with one key set
UpdateContact(c, key, val) ==
    IF c \notin DOMAIN contacts
    THEN /\ ret' = [ op |-> "update_contact", status |-> 404 ]
         /\ UNCHANGED <<now, contacts, score_events, scores, email_events,
                        requests, other_tables>>
    ELSE /\ contacts' = [contacts EXCEPT ![c] = [ @ EXCEPT ![key] = val ]]
         /\ ret' = [ op |-> "update_contact", status |-> 200 ]
         /\ UNCHANGED <<now, score_events, scores, email_events, requests,
                        other_tables>>

CalculateProfileScore(c) ==
    /\ c \in DOMAIN contacts
    /\ ret' = [ op |-> "calculate_profile_score", contact |-> contacts[c],
                result |-> calculate_profile_score(contacts[c]) ]
    /\ UNCHANGED <<now, contacts, score_events, scores, email_events, requests,
                   other_tables>>

InitProfile ==
    /\ now = 0
    /\ \E text \in CustomFieldTexts :
          contacts = [InitContacts EXCEPT !["c1"].custom_fields = text]
    /\ score_events = << >>
    /\ scores = << >>
    /\ email_events = EmptyBag
    /\ requests = << >>
    /\ ret = NoResult
    /\ scoring_rules = << >>
    /\ suppression = EmptyBag
    /\ audiences = << >>
    /\ session = << >>
    /\ foreign_keys = FALSE
    /\ automation_rules = << >>
    /\ automation_logs = << >>

NextProfile ==
    \/ \E key \in PatchFields, val \in FieldTexts : UpdateContact("c1", key, val)
    \/ \E text \in PatchCustomTexts : UpdateContact("c1", "custom_fields", text)
    \/ CalculateProfileScore("c1")

SpecProfile == InitProfile /\ [][NextProfile]_vars

(***************************************************************************)
(* calculate_recency_score at the clock's resolution: a datetime is a      *)
(* number of minutes here, so that elapsed times below a day are inputs    *)
(***************************************************************************)
DayMinutes == 1440

\* round(20.0 * math.exp(-0.03 * m / 1440), 2) in hundredths, for m = 0 .. 59
DECAY_FIRST_HOUR ==
    << 2000, 2000, 2000, 2000, 2000, 2000, 2000, 2000, 2000, 2000,
       2000, 2000, 2000, 1999, 1999, 1999, 1999, 1999, 1999, 1999,
       1999, 1999, 1999, 1999, 1999, 1999, 1999, 1999, 1999, 1999,
       1999, 1999, 1999, 1999, 1999, 1999, 1999, 1998, 1998, 1998,
       1998, 1998, 1998, 1998, 1998, 1998, 1998, 1998, 1998, 1998,
       1998, 1998, 1998, 1998, 1998, 1998, 1998, 1998, 1998, 1998 >>

\* the elapsed minutes the two tables cover: the first hour minute by
\* minute, then whole days; one future-dated value
ElapsedInputs ==
    {-DayMinutes} \cup (0..(Len(DECAY_FIRST_HOUR) - 1))
        \cup { DayMinutes * d : d \in 1..(Len(DECAY) + 1) }

\* calculate_recency_score without the clamp of a future-dated last activity
calculate_recency_score_minutes_unclamped(last_activity, t) ==
    IF last_activity = NoTime THEN 0
    ELSE LET minutes_ago == t - last_activity
         IN IF minutes_ago >= 90 * DayMinutes \/ minutes_ago < 0 THEN 0
            ELSE IF minutes_ago < Len(DECAY_FIRST_HOUR)
                 THEN DECAY_FIRST_HOUR[minutes_ago + 1]
            ELSE DECAY[(minutes_ago \div DayMinutes) + 1]

\* days_ago = minutes_ago / 1440
calculate_recency_score_minutes(last_activity, t) ==
    IF last_activity = NoTime THEN 0
    ELSE LET minutes_ago == t - last_activity
         IN IF minutes_ago <= 0 THEN 2000
            ELSE IF minutes_ago >= 90 * DayMinutes THEN 0
            ELSE IF minutes_ago < Len(DECAY_FIRST_HOUR)
                 THEN DECAY_FIRST_HOUR[minutes_ago + 1]
            ELSE DECAY[(minutes_ago \div DayMinutes) + 1]

CalculateRecencyScore(last_activity) ==
    /\ ret' = [ op |-> "calculate_recency_score",
                last_activity |-> last_activity,
                elapsed |-> IF last_activity = NoTime THEN 0
                            ELSE now * DayMinutes - last_activity,
                result |-> calculate_recency_score_minutes(last_activity,
                                                           now * DayMinutes) ]
    /\ UNCHANGED <<now, contacts, score_events, scores, email_events, requests,
                   other_tables>>

InitRecency ==
    /\ now = MaxEvalDay
    /\ contacts = InitContacts
    /\ score_events = << >>
    /\ scores = << >>
    /\ email_events = EmptyBag
    /\ requests = << >>
    /\ ret = NoResult
    /\ scoring_rules = << >>
    /\ suppression = EmptyBag
    /\ audiences = << >>
    /\ session = << >>
    /\ foreign_keys = FALSE
    /\ automation_rules = << >>
    /\ automation_logs = << >>

NextRecency ==
    \/ CalculateRecencyScore(NoTime)
    \/ \E elapsed \in ElapsedInputs :
          CalculateRecencyScore(now * DayMinutes - elapsed)

SpecRecency == InitRecency /\ [][NextRecency]_vars

(***************************************************************************)
(* The sweep day by day: one contact scores, clicks and is swept while the *)
(* clock advances a day at a time                                          *)
(***************************************************************************)
MaxDwellDay == 4
MaxDwellScoreEvents == 1
MaxDwellEmailEvents == 3

NextDwell ==
    \/ Len(score_events) < MaxDwellScoreEvents /\ RecordScoreEvent("c1", 1500)
    \/ BagCardinality(email_events) < MaxDwellEmailEvents /\ TrackClick("k1", "c1")
    \/ ProcessLifecycleBatch(1)
    \/ now + 1 <= MaxDwellDay /\ Tick(1)

SpecDwell == Init /\ [][NextDwell]_vars

(***************************************************************************)
(* api/automation_rules.py: the automation rules, their execution limits   *)
(* and the log of their executions                                         *)
(***************************************************************************)
MaxExecutions == 2
MaxAutomationLogs == 4
MaxAutomationDay == 2

AutomationRule(name, trigger_type, priority, conditions, actions, max_executions, cooldown_minutes) ==
    [ name |-> name, active |-> TRUE, priority |-> priority,
      trigger_type |-> trigger_type, conditions |-> conditions,
      actions |-> actions, max_executions |-> max_executions,
      total_executions |-> 0, cooldown_minutes |-> cooldown_minutes,
      last_executed_at |-> NoTime ]

AutomationLog(rule_id, contact_id, trigger_type, actions_executed, status, error_message) ==
    [ rule_id |-> rule_id, contact_id |-> contact_id,
      trigger_type |-> trigger_type, actions_executed |-> actions_executed,
      status |-> status, error_message |-> error_message ]

\* _eval_condition on a field the context does not hold (actual is None)
eval_condition_none(operator) ==
    CASE operator = "neq" -> TRUE
      [] operator = "not_set" -> TRUE
      [] OTHER -> FALSE

RECURSIVE AllConditions(_, _, _)
\* for cond in conditions: if not self._eval_condition(...): return False
AllConditions(conditions, i, context) ==
    IF i > Len(conditions) THEN TRUE
    ELSE LET cond == conditions[i]
             met == IF cond.field \in DOMAIN context
                    THEN eval_condition(context[cond.field], cond.operator,
                                        cond.value)
                    ELSE eval_condition_none(cond.operator)
         IN IF ~met THEN FALSE ELSE AllConditions(conditions, i + 1, context)

check_conditions(rule, context) ==
    IF rule.conditions = << >> THEN TRUE
    ELSE AllConditions(rule.conditions, 1, context)

\* check_execution_limits with the limit tested after it was exceeded
check_execution_limits_late(rule, t) ==
    IF rule.max_executions > 0 /\ rule.total_executions > rule.max_executions
    THEN FALSE
    ELSE IF rule.cooldown_minutes > 0 /\ rule.last_executed_at # NoTime
            /\ t * DayMinutes
                 < rule.last_executed_at * DayMinutes + rule.cooldown_minutes
    THEN FALSE
    ELSE TRUE

check_execution_limits(rule, t) ==
    IF rule.max_executions > 0 /\ rule.total_executions >= rule.max_executions
    THEN FALSE
    ELSE IF rule.cooldown_minutes > 0 /\ rule.last_executed_at # NoTime
            /\ t * DayMinutes
                 < rule.last_executed_at * DayMinutes + rule.cooldown_minutes
    THEN FALSE
    ELSE TRUE

parse_actions(rule) == rule.actions

ActionTypes ==
    {"update_field", "add_tag", "remove_tag", "update_score", "send_email",
     "webhook", "wait_delay", "move_lifecycle", "notify_admin"}

\* _execute_action inside the try of execute_rule: ok, or the ValueError
\* of an unknown type
action_result(action_type) ==
    IF action_type \in ActionTypes
    THEN [ type |-> action_type, status |-> "ok" ]
    ELSE [ type |-> action_type, status |-> "error" ]

action_results(actions) == [i \in DOMAIN actions |-> action_result(actions[i])]

\* the log execute_rule adds for the rule as it is loaded
execute_rule_log(rule_id, rule, contact_id, context, t) ==
    IF ~check_conditions(rule, context)
    THEN AutomationLog(rule_id, contact_id, rule.trigger_type, << >>, "skipped",
                       "Conditions not met")
    ELSE IF ~check_execution_limits(rule, t)
    THEN AutomationLog(rule_id, contact_id, rule.trigger_type, << >>, "skipped",
                       "Execution limit reached")
    ELSE LET results == action_results(parse_actions(rule))
             failed == \E i \in DOMAIN results : results[i].status = "error"
         IN AutomationLog(rule_id, contact_id, rule.trigger_type, results,
                          IF failed THEN "failed" ELSE "success",
                          IF failed THEN "Unknown action type" ELSE "")

\* the rule row execute_rule commits
execute_rule_row(rule, context, t) ==
    IF check_conditions(rule, context) /\ check_execution_limits(rule, t)
    THEN [ rule EXCEPT !.total_executions = rule.total_executions + 1,
                       !.last_executed_at = t ]
    ELSE rule

\* select ... where active and trigger_type = ... order by priority desc:
\* the orders the query may return the rules in
get_matching_rules(trigger_type) ==
    LET ids == { r \in DOMAIN automation_rules :
                    /\ automation_rules[r].active
                    /\ automation_rules[r].trigger_type = trigger_type }
        n == Cardinality(ids)
    IN { o \in [1..n -> ids] :
           /\ \A i, j \in 1..n : i # j => o[i] # o[j]
           /\ \A i, j \in 1..n :
                 i < j => automation_rules[o[i]].priority
                            >= automation_rules[o[j]].priority }

\* POST /automation-rules
CreateRule(body) ==
    /\ body.name \notin DOMAIN automation_rules
    /\ automation_rules' =
          [ r \in DOMAIN automation_rules \cup {body.name} |->
              IF r = body.name THEN body ELSE automation_rules[r] ]
    /\ ret' = [ op |-> "create_rule", id |-> body.name ]
    /\ UNCHANGED <<now, contacts, score_events, scores, email_events, requests,
                   scoring_rules, suppression, audiences, session, foreign_keys,
                   automation_logs>>

\* RuleEngine.execute_rule on a stored rule
ExecuteRule(rule_id, contact_id, context) ==
    /\ rule_id \in DOMAIN automation_rules
    /\ LET rule == automation_rules[rule_id]
           log == execute_rule_log(rule_id, rule, contact_id, context, now)
       IN /\ automation_rules' =
                [automation_rules EXCEPT ![rule_id] =
                    execute_rule_row(rule, context, now)]
          /\ automation_logs' = Append(automation_logs, log)
          /\ ret' = [ op |-> "execute_rule", rule_id |-> rule_id, logs |-> <<log>> ]
    /\ UNCHANGED <<now, contacts, score_events, scores, email_events, requests,
                   scoring_rules, suppression, audiences, session, foreign_keys>>

\* POST /automation-rules/fire: RuleEngine.fire_event runs execute_rule on
\* every matching rule, each with the event's data as its context
FireEvent(trigger_type, contact_id, data) ==
    \E order \in get_matching_rules(trigger_type) :
        LET logs == [ i \in DOMAIN order |->
                        execute_rule_log(order[i], automation_rules[order[i]],
                                         contact_id, data, now) ]
        IN /\ automation_rules' =
                 [ r \in DOMAIN automation_rules |->
                     IF \E i \in DOMAIN order : order[i] = r
                     THEN execute_rule_row(automation_rules[r], data, now)
                     ELSE automation_rules[r] ]
           /\ automation_logs' = automation_logs \o logs
           /\ ret' = [ op |-> "fire_event", trigger_type |-> trigger_type,
                       logs |-> logs ]
           /\ UNCHANGED <<now, contacts, score_events, scores, email_events,
                          requests, scoring_rules, suppression, audiences,
                          session, foreign_keys>>

\* the rules the requests create
RuleBodies ==
    { AutomationRule("welcome", "contact_created", 10,
                     << [field |-> "country", operator |-> "eq", value |-> US] >>,
                     << "add_tag" >>, MaxExecutions, 0),
      AutomationRule("alert", "contact_created", 5, << >>,
                     << "add_tag", "unknown_action" >>, MaxExecutions, DayMinutes),
      AutomationRule("audit", "tag_added", 0, << >>, << >>, 0, 0) }

TriggerTypes == {"contact_created", "tag_added"}
Contexts == { [country |-> US], [country |-> DE], << >> }

NextAutomation ==
    \/ \E body \in RuleBodies : CreateRule(body)
    \/ \E rule_id \in DOMAIN automation_rules, context \in Contexts :
          /\ Len(automation_logs) < MaxAutomationLogs
          /\ ExecuteRule(rule_id, "c1", context)
    \/ \E trigger_type \in TriggerTypes, data \in Contexts :
          /\ Len(automation_logs) + Cardinality(DOMAIN automation_rules)
                <= MaxAutomationLogs
          /\ FireEvent(trigger_type, "c1", data)
    \/ now + 1 <= MaxAutomationDay /\ Tick(1)

SpecAutomation == Init /\ [][NextAutomation]_vars

(***************************************************************************)
(* Properties of evaluate_lifecycle (specification SpecEval)               *)
(***************************************************************************)
Evaluated == ret.op = "evaluate_lifecycle"

\* the email events of a contact, whatever their age
AllEventsOf(c) == {e \in BagToSet(email_events) : e.contact_id = c}

\* days since the contact's last email event of any age, NoTime for none
DaysInactive(c) ==
    IF AllEventsOf(c) = {} THEN NoTime ELSE now - LastOf(AllEventsOf(c))

\* the dormancy threshold of a stage, 0 for a stage without one
DormancyThreshold(stage) ==
    CASE stage = "subscriber" -> 60
      [] stage = "lead" -> 45
      [] stage = "mql" -> 30
      [] stage = "sql" -> 21
      [] OTHER -> 0

\* C3: a contact whose stage has a dormancy threshold and whose last activity
\* is at least that many days old is moved to dormant, whatever its score,
\* its opens and clicks and its unsubscribe events.
C3_DormancyFirst ==
    Evaluated =>
        LET r == ret.result
            th == DormancyThreshold(r.previous_stage)
        IN (th # 0 /\ DaysInactive(r.contact_id) # NoTime
                /\ DaysInactive(r.contact_id) >= th)
           => (r.transitioned /\ r.new_stage = "dormant")

\* the rules of the call: custom_rules or DEFAULT_RULES
RulesOf(call) ==
    IF call.custom_rules = << >> THEN DEFAULT_RULES ELSE call.custom_rules

\* rule i of the call has the call's stage as from_stage and its thresholds met
RuleMet(call, i) ==
    LET rule == RulesOf(call)[i]
        e == get_contact_engagement(call.result.contact_id, now, ENGAGEMENT_DAYS)
    IN /\ rule.from_stage = call.result.previous_stage
       /\ call.score >= rule.min_score
       /\ e.total_opens >= rule.min_opens
       /\ e.total_clicks >= rule.min_clicks

\* neither the dormancy check nor the churn check decided the call
ProgressionDecides(call) ==
    /\ call.result.new_stage # "dormant"
    /\ call.result.rule_description # "Auto-churn on unsubscribe"

\* C8: when the dormancy and churn checks do not fire, the first rule in
\* configured order whose from_stage and thresholds are met gives the new
\* stage; when none is met the result is no transition and the same stage.
C8_FirstRuleWins ==
    (Evaluated /\ ProgressionDecides(ret)) =>
        LET met == {i \in 1..Len(RulesOf(ret)) : RuleMet(ret, i)}
            r == ret.result
        IN IF met = {}
           THEN ~r.transitioned /\ r.new_stage = r.previous_stage
           ELSE LET first == CHOOSE i \in met : \A j \in met : i <= j
                IN /\ r.transitioned
                   /\ r.new_stage = RulesOf(ret)[first].to_stage
                   /\ r.rule_description = RulesOf(ret)[first].description

\* a call in which two rules of the set are met and the first one is applied
C8_Witness ==
    /\ Evaluated
    /\ ProgressionDecides(ret)
    /\ Cardinality({i \in 1..Len(RulesOf(ret)) : RuleMet(ret, i)}) >= 2
    /\ ret.result.new_stage = RulesOf(ret)[1].to_stage

\* C9: a contact with an unsubscribe event that is not at churned is moved
\* to churned whenever the dormancy check does not fire; a contact at
\* churned is not transitioned.
C9_ChurnOnUnsubscribe ==
    Evaluated =>
        LET r == ret.result
        IN /\ (HasUnsubscribed(r.contact_id) /\ r.previous_stage # "churned"
                  /\ r.new_stage # "dormant")
              => (r.transitioned /\ r.new_stage = "churned")
           /\ r.previous_stage = "churned" => ~r.transitioned

(***************************************************************************)
(* Properties of the sweep over two contacts (specification SpecBatch)     *)
(***************************************************************************)
ScoreFields(row) ==
    << row.total_score, row.engagement_score, row.profile_score,
       row.recency_score, row.grade >>

StageChanged == {c \in DOMAIN scores :
                    scores'[c].lifecycle_stage # scores[c].lifecycle_stage}

\* C10: a sweep evaluates at most limit rows; processed is their number,
\* transitioned is the number of rows whose stage changed and the length of
\* transitions; the other rows are unchanged and no score field changes.
C10_BatchFrame ==
    [][ret'.op = "process_lifecycle_batch" =>
         /\ ret'.processed <= ret'.limit
         /\ ret'.processed = Min(ret'.limit, Cardinality(DOMAIN scores))
         /\ ret'.transitioned = Len(ret'.transitions)
         /\ ret'.transitioned = Cardinality(StageChanged)
         /\ ret'.transitioned <= ret'.processed
         /\ StageChanged =
              {ret'.transitions[i].contact_id : i \in DOMAIN ret'.transitions}
         /\ DOMAIN scores' = DOMAIN scores
         /\ \A c \in DOMAIN scores :
              /\ ScoreFields(scores'[c]) = ScoreFields(scores[c])
              /\ scores'[c].last_activity_at = scores[c].last_activity_at
              /\ scores'[c].score_updated_at = scores[c].score_updated_at
              /\ c \notin StageChanged => scores'[c] = scores[c]]_vars

\* a sweep with limit 1 over two rows that transitioned the one it took
C10_Witness ==
    /\ ret.op = "process_lifecycle_batch"
    /\ ret.limit = 1
    /\ Cardinality(DOMAIN scores) = 2
    /\ ret.processed = 1
    /\ ret.transitioned = 1

(***************************************************************************)
(* Properties of concurrent requests (specification SpecConc)              *)
(***************************************************************************)
\* C1: in every committed Contact Score row, total_score is the sum of the
\* row's own engagement_score, profile_score and recency_score.
C1_TotalIsSum ==
    \A c \in DOMAIN scores :
        scores[c].total_score =
            scores[c].engagement_score + scores[c].profile_score
            + scores[c].recency_score

RECURSIVE FoldEngagement(_, _, _)
\* the engagement_score that the events of contact c give when they are
\* applied one after the other in ledger order: max(0, engagement + points)
FoldEngagement(evs, c, acc) ==
    IF evs = << >> THEN acc
    ELSE FoldEngagement(Tail(evs), c,
            IF Head(evs).contact_id = c THEN Max(0, acc + Head(evs).points) ELSE acc)

\* C5: once no request is in flight and none has failed, every score row
\* holds the engagement_score of the committed events applied one after the
\* other in the order of their commits: no update is lost.
C5_NoLostUpdate ==
    (\A r \in RequestIds : requests[r].pc \in {"idle", "committed"})
    => \A c \in DOMAIN scores :
          scores[c].engagement_score = FoldEngagement(score_events, c, 0)

\* C6: the event and the score change are committed together or not at all.
\* A step that changes a score row appends that request's event, a step that
\* appends an event leaves the contact with a score row stamped with the
\* event's time, and a request that fails or is abandoned changes neither
\* table.
C6_AllOrNothing ==
    [][/\ (scores' # scores \/ score_events' # score_events) =>
            \E r \in RequestIds :
                LET q == requests[r]
                    c == q.contact_id
                IN /\ q.pc = "read" /\ requests'[r].pc = "committed"
                   /\ score_events' =
                        Append(score_events, ScoreEvent(c, "", "manual", q.points, now))
                   /\ c \in DOMAIN scores'
                   /\ scores'[c].last_activity_at = now
                   /\ \A d \in DOMAIN scores : d # c => scores'[d] = scores[d]
       /\ \A r \in RequestIds :
            (requests[r].pc = "read" /\ requests'[r].pc \in {"failed", "abandoned"}) =>
                scores' = scores /\ score_events' = score_events]_vars

\* one request committed its event and score, one failed, one was abandoned
C6_Witness ==
    /\ \E r \in RequestIds : requests[r].pc = "committed"
    /\ \E r \in RequestIds : requests[r].pc = "failed"
    /\ \E r \in RequestIds : requests[r].pc = "abandoned"
    /\ Len(score_events) = 1

(***************************************************************************)
(* Properties of the scoring engine and the sweep (specification Spec)     *)
(***************************************************************************)
\* C2: a customer or evangelist without an unsubscribe event keeps its stage
\* in every step, except for the promotion customer -> evangelist.
C2_NoDemotion ==
    [][\A c \in DOMAIN scores :
          (scores[c].lifecycle_stage \in {"customer", "evangelist"}
              /\ ~HasUnsubscribed(c))
          => \/ scores'[c].lifecycle_stage = scores[c].lifecycle_stage
             \/ /\ scores[c].lifecycle_stage = "customer"
                /\ scores'[c].lifecycle_stage = "evangelist"]_vars

\* a customer whose score has fallen below the customer threshold, swept
C2_Witness ==
    \E c \in DOMAIN scores :
        /\ scores[c].lifecycle_stage = "customer"
        /\ scores[c].total_score < 7000
        /\ ~HasUnsubscribed(c)
        /\ ret.op = "process_lifecycle_batch"
        /\ ret.processed >= 1

\* C4: right after a record_score_event the stored engagement_score,
\* profile_score and total_score are the ones recalculate_contact_score
\* computes at that moment from the ledger and the profile.
C4_Recomputable ==
    [][Len(score_events') > Len(score_events) =>
         LET c == score_events'[Len(score_events')].contact_id
             r == RecalculatedRow(scores'[c], contacts'[c], score_events', c, now')
         IN /\ r.engagement_score = scores'[c].engagement_score
            /\ r.profile_score = scores'[c].profile_score
            /\ r.total_score = scores'[c].total_score]_vars

\* C7: a sweep that follows another sweep directly applies no transition to
\* a contact the first one transitioned.
C7_SweepIdempotent ==
    [][(ret.op = "process_lifecycle_batch" /\ ret'.op = "process_lifecycle_batch")
         => \A i \in DOMAIN ret'.transitions, j \in DOMAIN ret.transitions :
               ret'.transitions[i].contact_id # ret.transitions[j].contact_id]_vars

(***************************************************************************)
(* Properties of process_scoring_rules (specification SpecRules)           *)
(***************************************************************************)
\* the condition of a rule holds for the metadata: it is empty, or every key
\* of it has the metadata's value; a text that is no JSON is no filter
ConditionHolds(rule, metadata) ==
    \/ rule.condition \in {"", "{}"}
    \/ LET condition == json_loads_condition(rule.condition)
       IN \/ condition.kind = "JSONDecodeError"
          \/ /\ condition.kind = "dict"
             /\ \A p \in condition.items : dict_get(metadata, p[1]) = p[2]

\* the rules that are to emit an event for a call, in the state before it
Eligible(c, event_type, metadata) ==
    {r \in DOMAIN scoring_rules :
        /\ scoring_rules[r].active
        /\ scoring_rules[r].event_type = event_type
        /\ ConditionHolds(scoring_rules[r], metadata)
        /\ scoring_rules[r].max_per_contact > 0 =>
              CountRuleEvents(score_events, c, r) < scoring_rules[r].max_per_contact}

\* the events a step appended to the ledger
Appended == SubSeq(score_events', Len(score_events) + 1, Len(score_events'))

\* C11: a call of process_scoring_rules that returns appends exactly one
\* Score Event, with the rule's id and points, for every active rule of the
\* event type whose condition holds and whose cap is not reached, and none
\* for any other rule; no contact ever has more events of a capped rule than
\* the cap.
C11_OneEventPerEligibleRule ==
    [][(ret'.op = "process_scoring_rules" /\ ret'.error = "") =>
         LET c == ret'.contact_id
             eligible == Eligible(c, ret'.event_type, ret'.metadata)
         IN /\ SubSeq(score_events', 1, Len(score_events)) = score_events
            /\ Len(Appended) = Cardinality(eligible)
            /\ {Appended[i].rule_id : i \in DOMAIN Appended} = eligible
            /\ \A i \in DOMAIN Appended :
                  /\ Appended[i].contact_id = c
                  /\ Appended[i].event_type = ret'.event_type
                  /\ Appended[i].points = scoring_rules[Appended[i].rule_id].points
            /\ \A d \in RequestedContactIds, r \in DOMAIN scoring_rules :
                  scoring_rules[r].max_per_contact > 0 =>
                     CountRuleEvents(score_events', d, r)
                        <= scoring_rules[r].max_per_contact]_vars

\* a call that emitted for the rule whose condition the metadata meets and
\* not for the rule whose cap the contact had reached
C11_Witness ==
    /\ ret.op = "process_scoring_rules"
    /\ ret.error = ""
    /\ ret.emitted = <<"r2">>
    /\ CountRuleEvents(score_events, ret.contact_id, "r1") = 1

\* C14: whatever text a rule's condition holds, a call of
\* process_scoring_rules for a contact does not fail: a condition that is no
\* key/value filter counts as no filter.
C14_ConditionNeverFails ==
    (ret.op = "process_scoring_rules" /\ ret.contact_id \in DOMAIN contacts)
        => ret.error = ""

\* C15: a rule whose processing fails does not keep the other rules of the
\* same call from being processed: every rule that is to emit for the call
\* has its event appended, whether or not another rule failed.
C15_BestEffortPerRule ==
    [][(ret'.op = "process_scoring_rules" /\ ret'.contact_id \in DOMAIN contacts)
         => Eligible(ret'.contact_id, ret'.event_type, ret'.metadata)
               \subseteq {Appended[i].rule_id : i \in DOMAIN Appended}]_vars

(***************************************************************************)
(* Properties of the transition rules (specification SpecEval)             *)
(***************************************************************************)
\* C12: every transition the progression check applies goes to a stage of
\* strictly higher STAGE_ORDER than the stage it leaves: the default rules
\* all do, and no rule set with a regressive rule is ever applied.
C12_ProgressionUpward ==
    /\ \A i \in DOMAIN DEFAULT_RULES :
          STAGE_ORDER[DEFAULT_RULES[i].to_stage]
             > STAGE_ORDER[DEFAULT_RULES[i].from_stage]
    /\ (Evaluated /\ ProgressionDecides(ret) /\ ret.result.transitioned) =>
          STAGE_ORDER[ret.result.new_stage] > STAGE_ORDER[ret.result.previous_stage]

\* C13: a scoring operation that names a contact id of no contact fails with
\* the not-found error (the ValueError the API answers with 404) and leaves
\* the ledger and the score table as they were.
C13_UnknownContactRejected ==
    [][ (ret'.op \in {"record_score_event", "process_scoring_rules",
                      "recalculate_contact_score"}
         /\ ret'.contact_id \notin DOMAIN contacts)
        => (ret'.error = "ValueError" /\ UNCHANGED <<score_events, scores>>) ]_vars

(***************************************************************************)
(* Properties of the audience builder (specification SpecAudience)         *)
(***************************************************************************)
\* the attributes of an audience that update_audience sets
AudienceAttributes(a) == <<a.name, a.rules, a.match_type>>

\* C16: a call of create_audience or update_audience with a rule that fails
\* validation raises ValueError before it has run any query and stores
\* nothing, and the committed name, rules and match_type of an audience
\* change only in an update_audience of that audience that succeeds.
C16_ValidateBeforeStore ==
    [][ /\ (ret'.op \in {"create_audience", "update_audience"}
            /\ ret'.error = "ValueError")
           => (ret'.queries = 0 /\ audiences' = audiences)
        /\ \A id \in DOMAIN audiences :
              AudienceAttributes(audiences'[id]) # AudienceAttributes(audiences[id])
                 => /\ ret'.op = "update_audience"
                    /\ ret'.error = ""
                    /\ ret'.audience_id = id ]_vars

\* C17: every rule of a stored audience names one of the eight fields and
\* one of the thirteen operators eq, neq, contains, starts_with, ends_with,
\* gt, lt, gte, lte, in, not_in, is_set, not_set, and _build_condition
\* compiles it into a condition.
C17_AcceptedRulesCompile ==
    \A id \in DOMAIN audiences : \A i \in DOMAIN audiences[id].rules :
        LET rule == audiences[id].rules[i]
        IN /\ rule.field \in {"email", "first_name", "last_name", "phone",
                              "country", "language", "subscribed", "created_at"}
           /\ rule.operator \in {"eq", "neq", "contains", "starts_with",
                                 "ends_with", "gt", "lt", "gte", "lte", "in",
                                 "not_in", "is_set", "not_set"}
           /\ build_condition(rule).kind # "None"

(***************************************************************************)
(* Properties of audience evaluation (specification SpecSelect)            *)
(***************************************************************************)
\* the conditions the rules of an audience are compiled into
CompiledConditions(audience) ==
    { b \in { build_condition(audience.rules[i]) : i \in DOMAIN audience.rules } :
        b.kind # "None" }

\* the exclusions of an audience, on a contact
PassesExclusions(audience, c) ==
    /\ audience.exclude_unsubscribed => contacts[c].subscribed
    /\ audience.exclude_suppressed =>
          ~ \E row \in BagToSet(suppression) : row.email = contacts[c].email

\* the contacts of an audience: every condition for "all", at least one for
\* "any", every contact when there is no condition; and the exclusions
Selected(audience) ==
    { c \in DOMAIN contacts :
        /\ \/ CompiledConditions(audience) = {}
           \/ IF audience.match_type = "any"
              THEN \E k \in CompiledConditions(audience) : ConditionTrue(k, contacts[c])
              ELSE \A k \in CompiledConditions(audience) : ConditionTrue(k, contacts[c])
        /\ PassesExclusions(audience, c) }

\* the contacts of an audience with "any" read as at least one condition,
\* also when there is none
SelectedAsStated(audience) ==
    { c \in DOMAIN contacts :
        /\ IF audience.match_type = "any"
           THEN \E k \in CompiledConditions(audience) : ConditionTrue(k, contacts[c])
           ELSE \A k \in CompiledConditions(audience) : ConditionTrue(k, contacts[c])
        /\ PassesExclusions(audience, c) }

C19_StandingExclusion ==
    /\ (ret.op = "get_contacts" /\ session[ret.audience_id].exclude_suppressed)
          => \A c \in ret.contacts : check_suppression(contacts[c].email) = {}
    /\ ret.op = "preview_rules"
          => ret.count <= Cardinality({ c \in DOMAIN contacts :
                                          /\ contacts[c].subscribed
                                          /\ check_suppression(contacts[c].email) = {} })

\* the sets and counts overlap_analysis is to report for its two audiences
OverlapOf(r) ==
    LET A == Selected(session[r.audience_a])
        B == Selected(session[r.audience_b])
    IN [ A |-> A, B |-> B, overlap |-> Cardinality(A \cap B),
         union |-> Cardinality(A \cup B) ]

CachedEstimate(a) == <<a.estimated_size, a.last_estimated_at>>

\* C21: estimate_size returns the number of contacts the audience selects
\* and stores it with the current time; no other step changes the
\* estimated_size or last_estimated_at of a stored audience.
C21_EstimateOnlyOnRequest ==
    [][ /\ ret'.op = "estimate_size" =>
              /\ ret'.count = Cardinality(Selected(session[ret'.audience_id]))
              /\ CachedEstimate(audiences'[ret'.audience_id]) = <<ret'.count, now>>
        /\ \A id \in DOMAIN audiences :
              (ret'.op = "estimate_size" => ret'.audience_id # id)
                 => CachedEstimate(audiences'[id]) = CachedEstimate(audiences[id]) ]_vars

\* a day after the estimate, with the counted contact suppressed since and
\* the audience renamed, a get_contacts returns nobody and the cached
\* estimate is still the one of the day before
C21_Witness ==
    /\ ret.op = "get_contacts"
    /\ ret.contacts = {}
    /\ now = 1
    /\ audiences[ret.audience_id].name = "B"
    /\ CachedEstimate(audiences[ret.audience_id]) = <<1, 0>>

(***************************************************************************)
(* Properties of the suppression list (specification SpecSuppression)      *)
(***************************************************************************)
\* whether two addresses are the same but for the case of their letters
SameKey(e1, e2) == lower(e1) = lower(e2)

\* what check_suppression finds for an address in a table
EntryIn(table, email) == { row \in BagToSet(table) : row.email = lower(email) }

\* what every step of the suppression list does, for a relation Same of
\* addresses that are one entry: an added address has exactly one entry,
\* with the reason given, from then on until an address that is the Same is
\* removed; a removal empties the entry of the address, tells whether there
\* was one and leaves the entries of the other addresses as they were; a
\* check returns the entry
SuppressionSteps(Same(_, _)) ==
    /\ ret'.op = "add_to_suppression" =>
          /\ EntryIn(suppression', ret'.email) =
                {SuppressionEntry(lower(ret'.email), ret'.reason)}
          /\ \A e \in SuppressionEmails :
                ~Same(e, ret'.email) => EntryIn(suppression', e) = EntryIn(suppression, e)
    /\ ret'.op = "bulk_suppress" =>
          \A i \in DOMAIN ret'.emails : EntryIn(suppression', ret'.emails[i]) # {}
    /\ ret'.op = "remove_from_suppression" =>
          /\ EntryIn(suppression', ret'.email) = {}
          /\ ret'.removed = (EntryIn(suppression, ret'.email) # {})
          /\ \A e \in SuppressionEmails :
                ~Same(e, ret'.email) => EntryIn(suppression', e) = EntryIn(suppression, e)
    /\ ret'.op = "check_suppression" =>
          /\ ret'.entry = EntryIn(suppression, ret'.email)
          /\ suppression' = suppression
    /\ \A e \in SuppressionEmails :
          (EntryIn(suppression, e) # {}
             /\ ~(ret'.op = "remove_from_suppression" /\ Same(e, ret'.email)))
          => EntryIn(suppression', e) # {}
    /\ \A row \in BagToSet(suppression') :
          /\ CopiesIn(row, suppression') = 1
          /\ \A other \in BagToSet(suppression') : other.email = row.email => other = row

\* C22 (as amended): the suppression list is a set of entries keyed by the
\* lower-cased email, so that addresses differing only in letter case are
\* one entry: add makes check return one entry until an address with that
\* key is removed, a second add updates the entry, remove empties the key
\* only and returns whether an entry existed.
C22_KeyedByLowerEmail == [][SuppressionSteps(SameKey)]_vars

\* C22 as stated: the entries are keyed by the address as given, so that
\* removing one address leaves the entry of every other address in place.
C22_AsStated == [][SuppressionSteps(LAMBDA e1, e2 : e1 = e2)]_vars

\* an entry with a reason was added again with another reason, and another
\* address has been removed under its upper-case spelling
C22_Witness ==
    /\ ret.op = "remove_from_suppression"
    /\ ret.email = EmailBob
    /\ ret.removed
    /\ check_suppression(EmailBobLower) = {}
    /\ check_suppression(EmailAnn) = {SuppressionEntry(EmailAnn, "bounce")}
    /\ check_suppression(EmailCy) = {SuppressionEntry(EmailCy, "manual")}

(***************************************************************************)
(* Properties of the two condition evaluators (specification SpecOperators)*)
(***************************************************************************)
\* C23: for every operator of the audience set and every actual and
\* expected value, RuleEngine._eval_condition gives the truth value of the
\* condition AudienceBuilder._build_condition compiles.
C23_SameOperatorSemantics ==
    ret.op = "eval_condition" => ret.rule_engine = ret.audience

(***************************************************************************)
(* Properties of contact deletion (specification SpecDelete)               *)
(***************************************************************************)
\* C24: a deletion of a contact is either rejected, the contact staying, or
\* leaves no Score Event and no Contact Score that refers to the contact.
C24_NoDanglingScoreRows ==
    [][ ret'.op = "delete_contact" =>
          \/ contacts' = contacts
          \/ /\ \A i \in DOMAIN score_events' :
                   score_events'[i].contact_id # ret'.contact_id
             /\ ret'.contact_id \notin DOMAIN scores' ]_vars

(***************************************************************************)
(* Properties of the grade, the profile score and the recency score        *)
(***************************************************************************)
\* the grade of a total score by the documented lower bounds, in hundredths
GradeOf(total) ==
    IF total >= 9000 THEN "A+"
    ELSE IF total >= 8000 THEN "A"
    ELSE IF total >= 7000 THEN "B+"
    ELSE IF total >= 6000 THEN "B"
    ELSE IF total >= 4500 THEN "C"
    ELSE IF total >= 2500 THEN "D"
    ELSE "F"

\* C25: the grade is the documented function of the total score, negative
\* scores included, and the grade stored in every Contact Score is that
\* function of the total_score stored in the same row.
C25_GradeMatchesTotal ==
    /\ \A total \in {-1, 0, 2499, 2500, 4499, 4500, 5999, 6000, 6999, 7000,
                     7999, 8000, 8999, 9000} :
          score_to_grade(total) = GradeOf(total)
    /\ \A c \in DOMAIN scores : scores[c].grade = GradeOf(scores[c].total_score)

\* the field holds more than blanks
Populated(text) == text \notin {"", " "}
Award(condition, points) == IF condition THEN points ELSE 0
\* the stored text decodes to a dict of at least two attributes
TwoCustomAttributes(text) == text = "{a,b}"

\* C26: calculate_profile_score is 4 for a non-empty email plus 4 for a first
\* name plus 3 each for a last name, a phone and a country plus 3 for at
\* least two custom attributes; it lies in [0, 20], it is 20 when everything
\* is set, and custom-field text that does not decode earns no bonus.
C26_ProfilePoints ==
    ret.op = "calculate_profile_score" =>
        LET contact == ret.contact
            bonus == Award(TwoCustomAttributes(contact.custom_fields), 300)
        IN /\ ret.result = Award(contact.email # "", 400)
                             + Award(Populated(contact.first_name), 400)
                             + Award(Populated(contact.last_name), 300)
                             + Award(Populated(contact.phone), 300)
                             + Award(Populated(contact.country), 300)
                             + bonus
           /\ ret.result \in 0..2000
           /\ ( /\ contact.email # ""
                /\ \A key \in {"first_name", "last_name", "phone", "country"} :
                      Populated(contact[key])
                /\ TwoCustomAttributes(contact.custom_fields) )
              => ret.result = 2000
           /\ contact.custom_fields = "not json" =>
                 ret.result = calculate_profile_score(
                                  [contact EXCEPT !.custom_fields = "{}"])

C26_Witness ==
    /\ ret.op = "calculate_profile_score"
    /\ ret.result = 2000
    /\ ret.contact.custom_fields = "{a,b}"

\* two calls of calculate_recency_score one after the other, both with a
\* last activity, the second with the longer elapsed time
LaterCall ==
    /\ ret.op = "calculate_recency_score" /\ ret.last_activity # NoTime
    /\ ret'.op = "calculate_recency_score" /\ ret'.last_activity # NoTime
    /\ ret.elapsed < ret'.elapsed

\* what the claim fixes at the ends: 20 at no or negative elapsed time, 0 from
\* 90 days on and without a last activity
RecencyEnds ==
    ret'.op = "calculate_recency_score" =>
        /\ ret'.last_activity = NoTime => ret'.result = 0
        /\ ret'.last_activity # NoTime /\ ret'.elapsed <= 0 => ret'.result = 2000
        /\ ret'.last_activity # NoTime /\ ret'.elapsed >= 90 * DayMinutes =>
              ret'.result = 0

\* C27: calculate_recency_score is 20 at zero or negative elapsed time, 0 at
\* 90 days or more and without a last activity; over the elapsed time it
\* never increases, and from an elapsed time of zero on it is strictly lower
\* a whole day or more later while the earlier value is above 0.
C27_RecencyNonIncreasing ==
    [][ /\ RecencyEnds
        /\ LaterCall =>
              /\ ret'.result <= ret.result
              /\ ( /\ ret'.elapsed - ret.elapsed >= DayMinutes
                   /\ ret.elapsed >= 0
                   /\ ret.result > 0 )
                    => ret'.result < ret.result ]_vars

\* C27 as stated: between 0 and 90 days the score is strictly decreasing in
\* the elapsed time.
C27_StrictlyDecreasing ==
    [][ /\ RecencyEnds
        /\ ( /\ LaterCall
             /\ ret.elapsed > 0
             /\ ret'.elapsed < 90 * DayMinutes )
              => ret'.result < ret.result ]_vars

C27_Witness ==
    /\ ret.op = "calculate_recency_score"
    /\ ret.elapsed = 30 * DayMinutes
    /\ ret.result = 813

(***************************************************************************)
(* Properties of the time a contact stays in a stage (specification        *)
(* SpecDwell)                                                              *)
(***************************************************************************)
\* the progression rule a transition went by, 0 for none
RuleOf(tr) ==
    IF \E r \in DOMAIN DEFAULT_RULES :
          /\ DEFAULT_RULES[r].from_stage = tr.previous_stage
          /\ DEFAULT_RULES[r].to_stage = tr.new_stage
    THEN CHOOSE r \in DOMAIN DEFAULT_RULES :
          /\ DEFAULT_RULES[r].from_stage = tr.previous_stage
          /\ DEFAULT_RULES[r].to_stage = tr.new_stage
    ELSE 0

\* the day the contact's score row was created: its first score event. The
\* contact is in no stage before that day.
FirstScoredAt(c) ==
    LET days == { score_events[i].created_at :
                    i \in { j \in DOMAIN score_events :
                              score_events[j].contact_id = c } }
    IN IF days = {} THEN now ELSE CHOOSE d \in days : \A e \in days : d <= e

\* a sweep's transitions by a rule with min_days_in_stage > 0
DwellTransitions(result) ==
    IF result.op # "process_lifecycle_batch" THEN {}
    ELSE { result.transitions[i] : i \in
             { j \in DOMAIN result.transitions :
                 /\ RuleOf(result.transitions[j]) # 0
                 /\ DEFAULT_RULES[RuleOf(result.transitions[j])].min_days_in_stage > 0 } }

\* C28: a sweep promotes a contact by a rule with min_days_in_stage d > 0 only
\* when the contact has been in the rule's from-stage for d days, which takes
\* a score row that is d days old; and two sweeps one right after the other
\* do not promote one contact by two such rules.
C28_MinDaysInStage ==
    [][ /\ \A tr \in DwellTransitions(ret') :
              now' - FirstScoredAt(tr.contact_id)'
                  >= DEFAULT_RULES[RuleOf(tr)].min_days_in_stage
        /\ \A tr1 \in DwellTransitions(ret), tr2 \in DwellTransitions(ret') :
              tr1.contact_id # tr2.contact_id ]_vars

(***************************************************************************)
(* Properties of the stage the scoring engine writes (specification Spec)  *)
(***************************************************************************)
StageOf(total) ==
    IF total >= 9000 THEN "evangelist"
    ELSE IF total >= 7000 THEN "customer"
    ELSE IF total >= 5500 THEN "sql"
    ELSE IF total >= 4000 THEN "mql"
    ELSE IF total >= 2000 THEN "lead"
    ELSE "subscriber"

\* the step is a record_score_event or a recalculate_contact_score of c
ScoredStep(c) ==
    \/ /\ Len(score_events') = Len(score_events) + 1
       /\ score_events'[Len(score_events')].contact_id = c
    \/ /\ ret'.op = "recalculate_contact_score"
       /\ ret'.contact_id = c
       /\ ret'.error = ""

\* C29: a record_score_event or recalculate_contact_score of a contact whose
\* stage is not customer or evangelist stores the stage of the new
\* total_score, whatever the stage was: never new, opportunity, dormant or
\* churned, a lower stage for a lower score, and no longer dormant or churned.
C29_StageFromScoreAlone ==
    [][ \A c \in ContactIds :
          ( /\ ScoredStep(c)
            /\ RowOf(c, now).lifecycle_stage \notin {"customer", "evangelist"} )
          => LET before == RowOf(c, now).lifecycle_stage
                 after == scores'[c].lifecycle_stage
             IN /\ after = StageOf(scores'[c].total_score)
                /\ after \notin {"new", "opportunity", "dormant", "churned"}
                /\ ( /\ before \in {"lead", "mql", "sql", "opportunity"}
                     /\ STAGE_ORDER[StageOf(scores'[c].total_score)]
                            < STAGE_ORDER[before] )
                      => STAGE_ORDER[after] < STAGE_ORDER[before] ]_vars

\* a contact scored as a lead, never swept to another stage, recalculated
\* two months later to a total below the lead threshold
C29_Witness ==
    /\ ret.op = "recalculate_contact_score"
    /\ ret.error = ""
    /\ Len(score_events) >= 1
    /\ email_events = EmptyBag
    /\ "c1" \in DOMAIN scores
    /\ scores["c1"].total_score < 2000
    /\ scores["c1"].lifecycle_stage = "subscriber"

(***************************************************************************)
(* Properties of the execution limit of an automation rule (specification  *)
(* SpecAutomation)                                                         *)
(***************************************************************************)
\* the logs the step adds for the rule
NewLogs(rule_id) ==
    { automation_logs'[i] : i \in
        { j \in (Len(automation_logs) + 1)..Len(automation_logs') :
            automation_logs'[j].rule_id = rule_id } }

====
